---- MODULE Spec2Model ----
(***************************************************************************)
(* Model of the pywbem mock WBEM server responder                          *)
(* (pywbem_mock/_mainprovider.py, class MainProvider): the namespaced      *)
(* class / instance / qualifier repository, its request operations and the *)
(* Open / Pull / Close enumeration sessions.                               *)
(*                                                                         *)
(* Python values are modelled as follows.                                  *)
(*   None            the empty tuple <<>>; a present value x is <<x>>      *)
(*   NocaseDict      a function whose domain holds the lower-cased keys;   *)
(*                   the value keeps the name in its original casing       *)
(*   list            a sequence                                            *)
(*   an exception    the "status" field of a call's result                 *)
(***************************************************************************)
EXTENDS Integers, Sequences, FiniteSets, TLC

VARIABLES
    namespaces,             \* datastore: the namespace catalog
    class_store,            \* datastore: namespace -> list of CIM classes
    instance_store,         \* datastore: namespace -> list of CIM instances
    qualifier_store,        \* datastore: namespace -> list of qualifier decls
    enumeration_contexts,   \* MainProvider.enumeration_contexts
    uuid_count,             \* number of context ids handed out so far
    disable_pull_operations,\* conn.disable_pull_operations
    last,                   \* the last request and its response
    sessions,               \* history: per context id, what was delivered
    threads                 \* requests in progress on two threads

vars == <<namespaces, class_store, instance_store, qualifier_store,
          enumeration_contexts, uuid_count, disable_pull_operations,
          last, sessions, threads>>

repo_vars == <<namespaces, class_store, instance_store, qualifier_store>>
pull_vars == <<enumeration_contexts, uuid_count, sessions>>

-----------------------------------------------------------------------------
(* Bounds of the model *)

\* instances in the repository when an enumeration session starts
MaxObjs == 3
\* context ids that can be handed out in one run
MaxContexts == 1
\* instances one namespace can hold
MaxInstances == 2

(* Program constants *)

_DEFAULT_MAX_OBJECT_COUNT == 100
OPEN_MAX_TIMEOUT == 40
default_server_timeout == 40
DEFAULT_DEEP_INHERITANCE == TRUE

-----------------------------------------------------------------------------
(* Python values *)

None == <<>>
Some(x) == <<x>>
IsNone(v) == v = <<>>
Val(v) == v[1]
\* Python truth value of an optional boolean
Truthy(v) == v = <<TRUE>>

\* str.lower() on the names that occur in the model
LowerTable ==
    [s \in {"CIM_A", "CIM_Namespace", "PG_Namespace", "Name", "K", "P",
            "CreationClassName", "ObjectManagerName",
            "ObjectManagerCreationClassName", "SystemName",
            "SystemCreationClassName", "Key", "Association",
            "CIM_B", "CIM_C", "CIM_D", "Q", "CIM_AtoB", "CIM_AtoC",
            "Left", "Right", "CIM_X"} |->
        CASE s = "CIM_A" -> "cim_a"
          [] s = "CIM_X" -> "cim_x"
          [] s = "CIM_AtoB" -> "cim_atob"
          [] s = "CIM_AtoC" -> "cim_atoc"
          [] s = "Left" -> "left"
          [] s = "Right" -> "right"
          [] s = "CIM_B" -> "cim_b"
          [] s = "CIM_C" -> "cim_c"
          [] s = "CIM_D" -> "cim_d"
          [] s = "Q" -> "q"
          [] s = "CIM_Namespace" -> "cim_namespace"
          [] s = "PG_Namespace" -> "pg_namespace"
          [] s = "Name" -> "name"
          [] s = "K" -> "k"
          [] s = "P" -> "p"
          [] s = "CreationClassName" -> "creationclassname"
          [] s = "ObjectManagerName" -> "objectmanagername"
          [] s = "ObjectManagerCreationClassName" ->
                 "objectmanagercreationclassname"
          [] s = "SystemName" -> "systemname"
          [] s = "SystemCreationClassName" -> "systemcreationclassname"
          [] s = "Key" -> "key"
          [] s = "Association" -> "association"]

Lower(s) == (LowerTable @@ (s :> s))[s]

\* str.strip('/') on the namespace names that occur in the model
StripTable ==
    [s \in {"/ns1/", "/ns1", "ns1/", "/root"} |->
        CASE s = "/ns1/" -> "ns1"
          [] s = "/ns1" -> "ns1"
          [] s = "ns1/" -> "ns1"
          [] s = "/root" -> "root"]

StripSlash(s) == (StripTable @@ (s :> s))[s]

\* the namespaces the datastore can hold in the model
AllNs == {"root", "ns1"}

\* dict / NocaseDict helpers
\* The value of a set of one element.  {F(x) : x \in {e}} evaluates e once
\* and hands its value to F, as a Python call does with its argument.
OneOf(S) == CHOOSE x \in S : TRUE

DictDel(d, k) == [x \in DOMAIN d \ {k} |-> d[x]]
DictSet(d, k, v) == [x \in DOMAIN d \cup {k} |-> IF x = k THEN v ELSE d[x]]

RECURSIVE Flatten(_)
Flatten(ss) == IF ss = <<>> THEN <<>> ELSE Head(ss) \o Flatten(Tail(ss))

Range(s) == {s[i] : i \in 1..Len(s)}

\* Python slices objs[0:n] and objs[n:]
SliceTo(s, n) == SubSeq(s, 1, IF n < Len(s) THEN n ELSE Len(s))
SliceFrom(s, n) == SubSeq(s, (IF n < Len(s) THEN n ELSE Len(s)) + 1, Len(s))

-----------------------------------------------------------------------------
(* CIM objects *)

\* CIMProperty
Prop(name, type, value, quals, origin, propagated) ==
    [name |-> name, type |-> type, is_array |-> FALSE, value |-> value,
     qualifiers |-> quals, class_origin |-> origin, propagated |-> propagated]

\* CIMProperty(name, value) as built by CIMInstance.__setitem__ for a string
StrProp(name, value) == Prop(name, "string", Some(value), {}, None, None)

\* two CIMInstanceName objects are equal iff this key is equal
PathKey(p) ==
    [classname |-> Lower(p.classname),
     namespace |-> p.namespace,
     host |-> p.host,
     keybindings |-> [k \in DOMAIN p.keybindings |-> p.keybindings[k].value]]

-----------------------------------------------------------------------------
(* The datastore: one catalog of namespaces and three object stores per    *)
(* namespace.  A repository value db is the record of the four variables.  *)

Db == [namespaces |-> namespaces, class_store |-> class_store,
       instance_store |-> instance_store, qualifier_store |-> qualifier_store]

EmptyDb == [namespaces |-> {},
            class_store |-> [n \in AllNs |-> <<>>],
            instance_store |-> [n \in AllNs |-> <<>>],
            qualifier_store |-> [n \in AllNs |-> <<>>]]

\* class store: exists / get by case-insensitive name
ClassExists(cs, classname) ==
    \E i \in 1..Len(cs) : Lower(cs[i].classname) = Lower(classname)
ClassGet(cs, classname) ==
    cs[CHOOSE i \in 1..Len(cs) : Lower(cs[i].classname) = Lower(classname)]
ClassDelete(cs, classname) ==
    SelectSeq(cs, LAMBDA c : Lower(c.classname) # Lower(classname))

\* instance store: exists / get / delete by path
InstExists(is, path) ==
    \E i \in 1..Len(is) : PathKey(is[i].path) = PathKey(path)
InstGet(is, path) ==
    is[CHOOSE i \in 1..Len(is) : PathKey(is[i].path) = PathKey(path)]
InstDelete(is, path) ==
    SelectSeq(is, LAMBDA x : PathKey(x.path) # PathKey(path))

\* qualifier store: exists / delete by case-insensitive name
QualExists(qs, name) ==
    \E i \in 1..Len(qs) : Lower(qs[i].name) = Lower(name)
QualGet(qs, name) ==
    qs[CHOOSE i \in 1..Len(qs) : Lower(qs[i].name) = Lower(name)]
QualDelete(qs, name) ==
    SelectSeq(qs, LAMBDA q : Lower(q.name) # Lower(name))

\* datastore.validate_namespace: KeyError when absent
DsValidateNamespace(db, ns) == ns \in db.namespaces

\* datastore.add_namespace: strips '/', ValueError when present
DsAddNamespace(db, ns) ==
    LET n == StripSlash(ns) IN
    IF n \in db.namespaces
    THEN [status |-> "ValueError", db |-> db]
    ELSE [status |-> "OK",
          db |-> [db EXCEPT !.namespaces = @ \cup {n},
                            !.class_store[n] = <<>>,
                            !.instance_store[n] = <<>>,
                            !.qualifier_store[n] = <<>>]]

\* datastore.remove_namespace: strips '/', KeyError when absent, ValueError
\* when one of the three stores of the namespace holds an object
DsRemoveNamespace(db, ns) ==
    LET n == StripSlash(ns) IN
    IF n \notin db.namespaces
    THEN [status |-> "KeyError", db |-> db]
    ELSE IF db.class_store[n] # <<>> \/ db.instance_store[n] # <<>>
            \/ db.qualifier_store[n] # <<>>
    THEN [status |-> "ValueError", db |-> db]
    ELSE [status |-> "OK", db |-> [db EXCEPT !.namespaces = @ \ {n}]]

-----------------------------------------------------------------------------
(* MainProvider: namespace management *)

\* validate_namespace: CIM_ERR_INVALID_NAMESPACE when the datastore raises
validate_namespace(db, namespace) == DsValidateNamespace(db, namespace)

add_namespace(db, namespace) ==
    LET r == DsAddNamespace(db, namespace) IN
    IF r.status = "ValueError"
    THEN [status |-> "CIM_ERR_ALREADY_EXISTS", db |-> db]
    ELSE r

\* A variant of remove_namespace that maps the two errors of the datastore
\* the other way round.
remove_namespaceSwapped(db, namespace) ==
    LET r == DsRemoveNamespace(db, namespace) IN
    CASE r.status = "KeyError" ->
            [status |-> "CIM_ERR_NAMESPACE_NOT_EMPTY", db |-> db]
      [] r.status = "ValueError" -> [status |-> "CIM_ERR_NOT_FOUND", db |-> db]
      [] OTHER -> r

remove_namespace(db, namespace) ==
    LET r == DsRemoveNamespace(db, namespace) IN
    CASE r.status = "KeyError" -> [status |-> "CIM_ERR_NOT_FOUND", db |-> db]
      [] r.status = "ValueError" ->
            [status |-> "CIM_ERR_NAMESPACE_NOT_EMPTY", db |-> db]
      [] OTHER -> r

-----------------------------------------------------------------------------
(* MainProvider: helpers on classes *)

\* _get_subclass_names with a class name: direct subclasses in store order,
\* then, when deep, the subclasses of each of them
RECURSIVE _get_subclass_names(_, _, _)
_get_subclass_names(classname, cs, deep_inheritance) ==
    LET direct == SelectSeq(cs, LAMBDA c :
                      ~IsNone(c.superclass)
                      /\ Lower(Val(c.superclass)) = Lower(classname))
        rtn_classnames == [i \in 1..Len(direct) |-> direct[i].classname]
    IN IF deep_inheritance
       THEN rtn_classnames \o
            Flatten([i \in 1..Len(rtn_classnames) |->
                _get_subclass_names(rtn_classnames[i], cs, deep_inheritance)])
       ELSE rtn_classnames

\* A variant of _get_subclass_list_for_enums that holds the direct subclasses
\* only.
_get_subclass_list_for_enumsDirect(classname, cs) ==
    {Lower(n) : n \in Range(_get_subclass_names(classname, cs, FALSE))}
        \cup {Lower(classname)}

\* _get_subclass_list_for_enums: the keys of the NocaseDict it returns
\* (the caller has checked that the class exists)
_get_subclass_list_for_enums(classname, cs) ==
    {Lower(n) : n \in Range(_get_subclass_names(classname, cs, TRUE))}
        \cup {Lower(classname)}

\* _filter_properties: keep the properties named in property_list
_filter_properties(properties, property_list) ==
    IF IsNone(property_list) THEN properties
    ELSE LET pl == {Lower(p) : p \in Val(property_list)} IN
         [k \in {x \in DOMAIN properties : Lower(properties[x].name) \in pl}
             |-> properties[k]]

_remove_qualifiers(properties) ==
    [k \in DOMAIN properties |-> [properties[k] EXCEPT !.qualifiers = {}]]

_remove_classorigin(properties) ==
    [k \in DOMAIN properties |-> [properties[k] EXCEPT !.class_origin = None]]

\* _get_class on a class that exists: a copy shaped by the parameters
_get_class(cs, classname, local_only, include_qualifiers, include_classorigin, property_list) ==
    LET Shaped(cls) ==
          LET p1 == IF Truthy(local_only)
                    THEN [k \in {x \in DOMAIN cls.properties :
                                    cls.properties[x].propagated # Some(TRUE)}
                             |-> cls.properties[k]]
                    ELSE cls.properties
              p2 == _filter_properties(p1, property_list)
              p3 == OneOf({IF Truthy(include_qualifiers) THEN p
                           ELSE _remove_qualifiers(p) : p \in {p2}})
              p4 == OneOf({IF Truthy(include_classorigin) THEN p
                           ELSE _remove_classorigin(p) : p \in {p3}})
          IN [cls EXCEPT !.properties = p4,
                         !.qualifiers = IF Truthy(include_qualifiers) THEN @
                                        ELSE {}]
    IN OneOf({Shaped(cls) : cls \in {ClassGet(cs, classname)}})

-----------------------------------------------------------------------------
(* The class resolver (ResolverMixin._resolve_class) *)

\* properties of the superclass that the new class does not override come
\* in as propagated; local ones get class_origin = the new class
ResolveProperties(new_class, cs) ==
    LET local == [k \in DOMAIN new_class.properties |->
                    [new_class.properties[k] EXCEPT
                        !.class_origin = Some(new_class.classname),
                        !.propagated = Some(FALSE)]]
        inherited ==
            IF IsNone(new_class.superclass) THEN << >>
            ELSE LET sp == ClassGet(cs, Val(new_class.superclass)).properties
                 IN [k \in DOMAIN sp \ DOMAIN local |->
                        [sp[k] EXCEPT !.propagated = Some(TRUE)]]
    IN [k \in DOMAIN local \cup DOMAIN inherited |->
            IF k \in DOMAIN local THEN local[k] ELSE inherited[k]]

\* every qualifier the class uses must be declared in the namespace
QualifiersDeclared(new_class, qs) ==
    \A q \in new_class.qualifiers \cup
             UNION {new_class.properties[k].qualifiers :
                        k \in DOMAIN new_class.properties} :
        QualExists(qs, q)

\* A variant of _resolve_class that does not look up the superclass.
_resolve_classAnySuperclass(new_class, cs, qs) ==
    IF ~QualifiersDeclared(new_class, qs)
    THEN [status |-> "CIM_ERR_INVALID_PARAMETER", cls |-> new_class]
    ELSE [status |-> "OK",
          cls |-> IF ~IsNone(new_class.superclass)
                     /\ ~ClassExists(cs, Val(new_class.superclass))
                  THEN new_class
                  ELSE [new_class EXCEPT !.properties =
                           ResolveProperties(new_class, cs)]]

_resolve_class(new_class, cs, qs) ==
    IF ~IsNone(new_class.superclass)
       /\ ~ClassExists(cs, Val(new_class.superclass))
    THEN [status |-> "CIM_ERR_INVALID_SUPERCLASS", cls |-> new_class]
    ELSE IF ~QualifiersDeclared(new_class, qs)
    THEN [status |-> "CIM_ERR_INVALID_PARAMETER", cls |-> new_class]
    ELSE [status |-> "OK",
          cls |-> [new_class EXCEPT !.properties =
                        ResolveProperties(new_class, cs)]]

-----------------------------------------------------------------------------
(* MainProvider: class and qualifier operations that change the repository *)

CreateClass(db, namespace, NewClass) ==
    IF ~validate_namespace(db, namespace)
    THEN [status |-> "CIM_ERR_INVALID_NAMESPACE", db |-> db]
    ELSE IF ClassExists(db.class_store[namespace], NewClass.classname)
    THEN [status |-> "CIM_ERR_ALREADY_EXISTS", db |-> db]
    ELSE LET r == _resolve_class(NewClass, db.class_store[namespace],
                                 db.qualifier_store[namespace]) IN
         IF r.status # "OK" THEN [status |-> r.status, db |-> db]
         ELSE [status |-> "OK",
               db |-> [db EXCEPT !.class_store[namespace] =
                                      Append(@, r.cls)]]

\* A variant of DeleteClassLoop that deletes the classes and no instance.
DeleteClassLoopKeepsInstances(cs, is, ClassName, classnames) ==
    [class_store |->
        SelectSeq(cs, LAMBDA c :
            Lower(c.classname) \notin {Lower(n) : n \in Range(classnames)}),
     instance_store |-> is]

\* A variant of DeleteClassLoop that deletes the instances and, of the
\* classes, only ClassName.
DeleteClassLoopTargetOnly(cs, is, ClassName, classnames) ==
    [class_store |-> ClassDelete(cs, ClassName),
     instance_store |->
        SelectSeq(is, LAMBDA x :
            Lower(x.path.classname)
                \notin _get_subclass_list_for_enums(ClassName, cs))]

\* one pass of the loop of DeleteClass for the class name clname: delete the
\* instances of ClassName and its subclasses, then the class clname
RECURSIVE DeleteClassLoop(_, _, _, _)
DeleteClassLoop(cs, is, ClassName, classnames) ==
    IF classnames = <<>> THEN [class_store |-> cs, instance_store |-> is]
    ELSE LET sub_clns == _get_subclass_list_for_enums(ClassName, cs)
             is1 == SelectSeq(is, LAMBDA x :
                        Lower(x.path.classname) \notin sub_clns)
             cs1 == ClassDelete(cs, Head(classnames))
         IN DeleteClassLoop(cs1, is1, ClassName, Tail(classnames))

DeleteClass(db, namespace, ClassName) ==
    IF ~validate_namespace(db, namespace)
    THEN [status |-> "CIM_ERR_INVALID_NAMESPACE", db |-> db]
    ELSE IF ~ClassExists(db.class_store[namespace], ClassName)
    THEN [status |-> "CIM_ERR_NOT_FOUND", db |-> db]
    ELSE LET cs == db.class_store[namespace]
             classnames == Append(_get_subclass_names(ClassName, cs, TRUE),
                                  ClassName)
             r == DeleteClassLoop(cs, db.instance_store[namespace],
                                  ClassName, classnames)
         IN [status |-> "OK",
             db |-> [db EXCEPT !.class_store[namespace] = r.class_store,
                               !.instance_store[namespace] = r.instance_store]]

\* A variant of SetQualifier that adds the declaration whether or not the
\* name exists.
SetQualifierAdds(db, namespace, QualifierDeclaration) ==
    IF ~validate_namespace(db, namespace)
    THEN [status |-> "CIM_ERR_INVALID_NAMESPACE", db |-> db]
    ELSE [status |-> "OK",
          db |-> [db EXCEPT !.qualifier_store[namespace] =
                                 Append(@, QualifierDeclaration)]]

\* SetQualifier: create, and when the name exists replace in place
SetQualifier(db, namespace, QualifierDeclaration) ==
    IF ~validate_namespace(db, namespace)
    THEN [status |-> "CIM_ERR_INVALID_NAMESPACE", db |-> db]
    ELSE LET qs == db.qualifier_store[namespace]
             name == QualifierDeclaration.name
         IN [status |-> "OK",
             db |-> [db EXCEPT !.qualifier_store[namespace] =
                 IF QualExists(qs, name)
                 THEN [i \in 1..Len(qs) |->
                          IF Lower(qs[i].name) = Lower(name)
                          THEN QualifierDeclaration ELSE qs[i]]
                 ELSE Append(qs, QualifierDeclaration)]]

DeleteQualifier(db, namespace, QualifierName) ==
    IF ~validate_namespace(db, namespace)
    THEN [status |-> "CIM_ERR_INVALID_NAMESPACE", db |-> db]
    ELSE IF ~QualExists(db.qualifier_store[namespace], QualifierName)
    THEN [status |-> "CIM_ERR_NOT_FOUND", db |-> db]
    ELSE [status |-> "OK",
          db |-> [db EXCEPT !.qualifier_store[namespace] =
                                 QualDelete(@, QualifierName)]]

-----------------------------------------------------------------------------
(* MainProvider: instance operations *)

\* the namespace creation classes (CreateInstance / DeleteInstance)
NsClassname(classname) ==
    LET classname_lower == Lower(classname) IN
    IF classname_lower = "pg_namespace" THEN Some("PG_Namespace")
    ELSE IF classname_lower = "cim_namespace" THEN Some("CIM_Namespace")
    ELSE None

\* the name of the namespace to create: new_instance['Name'].strip('/')
NewNamespaceName(properties) == StripSlash(Val(properties["name"].value))

\* the properties CreateInstance writes into a namespace creation instance
NamespaceProperties(properties, ns_classname) ==
    LET fixed ==
          [k \in {"name", "creationclassname", "objectmanagername",
                  "objectmanagercreationclassname", "systemname",
                  "systemcreationclassname"} |->
            CASE k = "name" -> StrProp("Name", NewNamespaceName(properties))
              [] k = "creationclassname" ->
                    StrProp("CreationClassName", ns_classname)
              [] k = "objectmanagername" ->
                    StrProp("ObjectManagerName", "MyFakeObjectManager")
              [] k = "objectmanagercreationclassname" ->
                    StrProp("ObjectManagerCreationClassName",
                            "CIM_ObjectManager")
              [] k = "systemname" ->
                    StrProp("SystemName", "Mock_Test_WBEMServerTest")
              [] k = "systemcreationclassname" ->
                    StrProp("SystemCreationClassName", "CIM_ComputerSystem")]
    IN [k \in DOMAIN properties \cup DOMAIN fixed |->
           IF k \in DOMAIN fixed THEN fixed[k] ELSE properties[k]]

\* names (lower-cased) of the class properties that carry the Key qualifier
KeyProps(target_class) ==
    {k \in DOMAIN target_class.properties :
        "key" \in target_class.properties[k].qualifiers}

\* CIMInstanceName.from_instance: the key properties of the class with the
\* values of the instance
FromInstance(target_class, properties, namespace) ==
    [classname |-> target_class.classname,
     namespace |-> namespace,
     host |-> None,
     keybindings |-> [k \in KeyProps(target_class) |->
                        [name |-> target_class.properties[k].name,
                         value |-> Val(properties[k].value)]]]

\* A variant of FillFromClass that keeps the names the instance came with.
FillFromClassGivenNames(target_class, properties) ==
    [k \in DOMAIN target_class.properties |->
        IF k \in DOMAIN properties THEN properties[k]
        ELSE target_class.properties[k]]

\* the instance as stored: names in the casing of the class, class
\* properties the instance lacks taken from the class
FillFromClass(target_class, properties) ==
    [k \in DOMAIN target_class.properties |->
        IF k \in DOMAIN properties
        THEN [properties[k] EXCEPT !.name = target_class.properties[k].name]
        ELSE target_class.properties[k]]

\* A variant of StoreNewInstance that replaces an instance stored under the
\* same path.
StoreNewInstanceReplaces(db, namespace, inst, ns_classname, new_namespace) ==
    [status |-> "OK",
     db |-> [db EXCEPT !.instance_store[namespace] =
                Append(InstDelete(@, inst.path), inst)],
     rtn |-> Some(inst.path)]

\* A variant of StoreNewInstance that stores the instance and never adds the
\* namespace.
StoreNewInstanceOnly(db, namespace, inst, ns_classname, new_namespace) ==
    IF InstExists(db.instance_store[namespace], inst.path)
    THEN [status |-> "CIM_ERR_ALREADY_EXISTS", db |-> db, rtn |-> None]
    ELSE [status |-> "OK",
          db |-> [db EXCEPT !.instance_store[namespace] = Append(@, inst)],
          rtn |-> Some(inst.path)]

\* the last steps of CreateInstance: duplicate check, the namespace, the
\* instance
StoreNewInstance(db, namespace, inst, ns_classname, new_namespace) ==
    IF InstExists(db.instance_store[namespace], inst.path)
    THEN [status |-> "CIM_ERR_ALREADY_EXISTS", db |-> db, rtn |-> None]
    ELSE LET a == IF IsNone(ns_classname) THEN [status |-> "OK", db |-> db]
                  ELSE add_namespace(db, new_namespace)
         IN IF a.status # "OK"
            THEN [status |-> a.status, db |-> db, rtn |-> None]
            ELSE [status |-> "OK",
                  db |-> [a.db EXCEPT !.instance_store[namespace] =
                                          Append(@, inst)],
                  rtn |-> Some(inst.path)]

CreateInstance(db, namespace, NewInstance) ==
    IF ~validate_namespace(db, namespace)
    THEN [status |-> "CIM_ERR_INVALID_NAMESPACE", db |-> db, rtn |-> None]
    ELSE IF ~ClassExists(db.class_store[namespace], NewInstance.classname)
    THEN [status |-> "CIM_ERR_INVALID_CLASS", db |-> db, rtn |-> None]
    ELSE
    LET target_class == _get_class(db.class_store[namespace],
                                   NewInstance.classname, Some(FALSE),
                                   Some(TRUE), Some(TRUE), None)
        ns_classname == NsClassname(NewInstance.classname)
    IN
    IF ~IsNone(ns_classname) /\ "name" \notin DOMAIN NewInstance.properties
    THEN [status |-> "CIM_ERR_INVALID_PARAMETER", db |-> db, rtn |-> None]
    ELSE
    LET props1 == IF IsNone(ns_classname) THEN NewInstance.properties
                  ELSE NamespaceProperties(NewInstance.properties,
                                           Val(ns_classname))
        new_namespace == IF IsNone(ns_classname) THEN ""
                         ELSE NewNamespaceName(NewInstance.properties)
    IN
    IF \E pn \in KeyProps(target_class) : pn \notin DOMAIN props1
    THEN [status |-> "CIM_ERR_INVALID_PARAMETER", db |-> db, rtn |-> None]
    ELSE IF \E k \in DOMAIN props1 :
               \/ k \notin DOMAIN target_class.properties
               \/ props1[k].is_array # target_class.properties[k].is_array
               \/ props1[k].type # target_class.properties[k].type
    THEN [status |-> "CIM_ERR_INVALID_PARAMETER", db |-> db, rtn |-> None]
    ELSE
    LET props2 == FillFromClass(target_class, props1)
        inst == [classname |-> NewInstance.classname,
                 properties |-> props2,
                 path |-> FromInstance(target_class, props2, namespace)]
    IN StoreNewInstance(db, namespace, inst, ns_classname, new_namespace)

\* A variant of DeleteStoredInstance that deletes the instance before it
\* removes the namespace.
DeleteStoredInstanceFirst(db, namespace, iname) ==
    LET ns_classname == NsClassname(iname.classname)
        db1 == [db EXCEPT !.instance_store[namespace] = InstDelete(@, iname)]
    IN IF IsNone(ns_classname) THEN [status |-> "OK", db |-> db1]
       ELSE remove_namespace(db1, iname.keybindings["name"].value)

\* the part of DeleteInstance that follows the existence checks
DeleteStoredInstance(db, namespace, iname) ==
    LET ns_classname == NsClassname(iname.classname) IN
    IF ~IsNone(ns_classname) /\ "name" \notin DOMAIN iname.keybindings
    THEN [status |-> "KeyError", db |-> db]
    ELSE LET r == IF IsNone(ns_classname) THEN [status |-> "OK", db |-> db]
                  ELSE remove_namespace(db, iname.keybindings["name"].value)
         IN IF r.status # "OK" THEN [status |-> r.status, db |-> db]
            ELSE [status |-> "OK",
                  db |-> [r.db EXCEPT !.instance_store[namespace] =
                                          InstDelete(@, iname)]]

DeleteInstance(db, namespace, InstanceName) ==
    LET iname == [classname |-> InstanceName.classname,
                  namespace |-> IF IsNone(InstanceName.namespace)
                                THEN namespace
                                ELSE Val(InstanceName.namespace),
                  host |-> InstanceName.host,
                  keybindings |-> InstanceName.keybindings]
    IN
    IF iname.namespace # namespace
    THEN [status |-> "CIM_ERR_INVALID_NAMESPACE", db |-> db]
    ELSE IF ~validate_namespace(db, namespace)
    THEN [status |-> "CIM_ERR_INVALID_NAMESPACE", db |-> db]
    ELSE IF ~ClassExists(db.class_store[namespace], iname.classname)
    THEN [status |-> "CIM_ERR_INVALID_CLASS", db |-> db]
    ELSE IF ~InstExists(db.instance_store[namespace], iname)
    THEN [status |-> "CIM_ERR_NOT_FOUND", db |-> db]
    ELSE DeleteStoredInstance(db, namespace, iname)

\* _get_instance on an instance of the store: a copy shaped by the
\* parameters (status CIM_ERR_INVALID_CLASS when local_only needs a class
\* that is gone)
_get_instance(db, namespace, iname, property_list, local_only, include_class_origin, include_qualifiers) ==
    LET is == db.instance_store[namespace]
        cs == db.class_store[namespace]
    IN
    IF ~InstExists(is, iname)
    THEN [status |-> "CIM_ERR_NOT_FOUND", inst |-> None]
    ELSE IF Truthy(local_only) /\ ~ClassExists(cs, iname.classname)
    THEN [status |-> "CIM_ERR_INVALID_CLASS", inst |-> None]
    ELSE
    LET Shaped(rtn_inst) ==
    LET p0 == rtn_inst.properties
        p1 == IF Truthy(local_only)
              THEN LET local == [k \in {x \in DOMAIN p0 :
                                      \/ IsNone(p0[x].class_origin)
                                      \/ Val(p0[x].class_origin)
                                            = rtn_inst.classname}
                                   |-> p0[k]]
                       class_pl ==
                           OneOf({{cl.properties[k].name :
                                      k \in DOMAIN cl.properties} :
                                  cl \in {_get_class(cs, iname.classname,
                                              local_only, None, None, None)}})
                   IN OneOf({[k \in {x \in DOMAIN l : l[x].name \in class_pl}
                                |-> l[k]] : l \in {local}})
              ELSE p0
        p2 == _filter_properties(p1, property_list)
        p3 == OneOf({IF Truthy(include_qualifiers) THEN p
                     ELSE _remove_qualifiers(p) : p \in {p2}})
        p4 == OneOf({IF Truthy(include_class_origin) THEN p
                     ELSE _remove_classorigin(p) : p \in {p3}})
    IN [status |-> "OK", inst |-> Some([rtn_inst EXCEPT !.properties = p4])]
    IN OneOf({Shaped(rtn_inst) : rtn_inst \in {InstGet(is, iname)}})

EnumerateInstanceNames(db, namespace, ClassName) ==
    IF ~validate_namespace(db, namespace)
    THEN [status |-> "CIM_ERR_INVALID_NAMESPACE", rtn |-> <<>>]
    ELSE IF ~ClassExists(db.class_store[namespace], ClassName)
    THEN [status |-> "CIM_ERR_INVALID_CLASS", rtn |-> <<>>]
    ELSE LET clns == _get_subclass_list_for_enums(
                         ClassName, db.class_store[namespace])
             Paths(insts) == [i \in 1..Len(insts) |-> insts[i].path]
         IN [status |-> "OK",
             rtn |-> OneOf({Paths(insts) :
                       insts \in {SelectSeq(db.instance_store[namespace],
                           LAMBDA x : Lower(x.path.classname) \in clns)}})]

EnumerateInstances(db, namespace, ClassName, LocalOnly, DeepInheritance, IncludeQualifiers, IncludeClassOrigin, PropertyList) ==
    IF ~validate_namespace(db, namespace)
    THEN [status |-> "CIM_ERR_INVALID_NAMESPACE", rtn |-> <<>>]
    ELSE IF ~ClassExists(db.class_store[namespace], ClassName)
    THEN [status |-> "CIM_ERR_NOT_FOUND", rtn |-> <<>>]
    ELSE
    LET cs == db.class_store[namespace]
        di == IF IsNone(DeepInheritance) THEN DEFAULT_DEEP_INHERITANCE
              ELSE Val(DeepInheritance)
        class_pl ==
            OneOf({{cl.properties[k].name : k \in DOMAIN cl.properties} :
                   cl \in {_get_class(cs, ClassName, LocalOnly,
                                      None, None, None)}})
        Listed(cpl) ==
            IF IsNone(PropertyList) THEN Some(cpl)
            ELSE LET pl_lower == {Lower(pc) : pc \in Val(PropertyList)}
                 IN Some({pc \in cpl : Lower(pc) \in pl_lower})
        pl == IF di THEN PropertyList
              ELSE OneOf({Listed(cpl) : cpl \in {class_pl}})
        clns_dict == _get_subclass_list_for_enums(ClassName, cs)
        Copies(insts) ==
            [i \in 1..Len(insts) |->
                Val(_get_instance(db, namespace, insts[i].path, pl, None,
                                  IncludeClassOrigin, IncludeQualifiers).inst)]
    IN [status |-> "OK",
        rtn |-> OneOf({Copies(insts) :
                  insts \in {SelectSeq(db.instance_store[namespace],
                      LAMBDA x : Lower(x.path.classname) \in clns_dict)}})]

\* A variant of ExecQuery that answers with an empty result.
ExecQueryEmpty(db, namespace, QueryLanguage, Query) ==
    IF ~validate_namespace(db, namespace)
    THEN [status |-> "CIM_ERR_INVALID_NAMESPACE", rtn |-> <<>>]
    ELSE [status |-> "OK", rtn |-> <<>>]

\* ExecQuery: not implemented
ExecQuery(db, namespace, QueryLanguage, Query) ==
    IF ~validate_namespace(db, namespace)
    THEN [status |-> "CIM_ERR_INVALID_NAMESPACE", rtn |-> <<>>]
    ELSE [status |-> "CIM_ERR_NOT_SUPPORTED", rtn |-> <<>>]

-----------------------------------------------------------------------------
(* MainProvider: enumeration sessions *)

\* _create_contextid: str(uuid.uuid4()), a non-empty string that was never
\* handed out before; the n-th one is UuidStrings[n]
UuidStrings == <<"uuid-1", "uuid-2", "uuid-3", "uuid-4">>
_create_contextid(n) == UuidStrings[n + 1]

\* A variant of OpenTail that keeps the delivered head in the context.
OpenTailKeepsHead(objects, max_obj_cnt) == objects

\* the objects an Open request keeps in its context: the list after
\* "del objects[0: max_obj_cnt]"
OpenTail(objects, max_obj_cnt) == SliceFrom(objects, max_obj_cnt)

_open_response(ctxs, cnt, namespace, objects, pull_type, OperationTimeout, MaxObjectCount, ContinueOnError) ==
    LET max_obj_cnt == IF IsNone(MaxObjectCount)
                       THEN _DEFAULT_MAX_OBJECT_COUNT
                       ELSE Val(MaxObjectCount)
        coe == IF IsNone(ContinueOnError) THEN FALSE ELSE Val(ContinueOnError)
        timeout == IF IsNone(OperationTimeout) THEN default_server_timeout
                   ELSE Val(OperationTimeout)
    IN IF Len(objects) <= max_obj_cnt
       THEN [status |-> "OK", rtn |-> objects, eos |-> "TRUE",
             context_id |-> "", ctxs |-> ctxs]
       ELSE LET context_id == _create_contextid(cnt) IN
            [status |-> "OK", rtn |-> SliceTo(objects, max_obj_cnt),
             eos |-> "FALSE", context_id |-> context_id,
             ctxs |-> DictSet(ctxs, context_id,
                         [pull_type |-> pull_type,
                          data |-> OpenTail(objects, max_obj_cnt),
                          namespace |-> namespace,
                          interoptimeout |-> timeout,
                          continueonerror |-> coe])]

\* A variant of PullSlice whose draining branch leaves the context in the
\* table.
PullSliceKeepsContext(ctxs, EnumerationContext, max_obj_cnt) ==
    LET objs_list == ctxs[EnumerationContext].data IN
    IF Len(objs_list) <= max_obj_cnt
    THEN [status |-> "OK", rtn |-> objs_list, eos |-> "TRUE",
          context_id |-> "", ctxs |-> ctxs]
    ELSE [status |-> "UnboundLocalError", rtn |-> <<>>, eos |-> "",
          context_id |-> "",
          ctxs |-> [ctxs EXCEPT ![EnumerationContext].data =
                                    SliceFrom(objs_list, max_obj_cnt)]]

\* A variant of PullSlice whose draining branch leaves out the first object.
PullSliceDropsFirst(ctxs, EnumerationContext, max_obj_cnt) ==
    LET objs_list == ctxs[EnumerationContext].data IN
    IF Len(objs_list) <= max_obj_cnt
    THEN [status |-> "OK", rtn |-> SliceFrom(objs_list, 1), eos |-> "TRUE",
          context_id |-> "", ctxs |-> DictDel(ctxs, EnumerationContext)]
    ELSE [status |-> "UnboundLocalError", rtn |-> <<>>, eos |-> "",
          context_id |-> "",
          ctxs |-> [ctxs EXCEPT ![EnumerationContext].data =
                                    SliceFrom(objs_list, max_obj_cnt)]]

\* A variant of PullSlice that drains the context only when it holds fewer
\* objects than the count.
PullSliceStrict(ctxs, EnumerationContext, max_obj_cnt) ==
    LET objs_list == ctxs[EnumerationContext].data IN
    IF Len(objs_list) < max_obj_cnt
    THEN [status |-> "OK", rtn |-> objs_list, eos |-> "TRUE",
          context_id |-> "", ctxs |-> DictDel(ctxs, EnumerationContext)]
    ELSE [status |-> "UnboundLocalError", rtn |-> <<>>, eos |-> "",
          context_id |-> "",
          ctxs |-> [ctxs EXCEPT ![EnumerationContext].data =
                                    SliceFrom(objs_list, max_obj_cnt)]]

\* the two cases of _pull_response once the context is validated.  The
\* branch that keeps the context never binds context_id, so its return
\* statement raises UnboundLocalError after the head was deleted from data.
PullSlice(ctxs, EnumerationContext, max_obj_cnt) ==
    LET objs_list == ctxs[EnumerationContext].data IN
    IF Len(objs_list) <= max_obj_cnt
    THEN [status |-> "OK", rtn |-> objs_list, eos |-> "TRUE",
          context_id |-> "", ctxs |-> DictDel(ctxs, EnumerationContext)]
    ELSE [status |-> "UnboundLocalError", rtn |-> <<>>, eos |-> "",
          context_id |-> "",
          ctxs |-> [ctxs EXCEPT ![EnumerationContext].data =
                                    SliceFrom(objs_list, max_obj_cnt)]]

\* A variant of PullTypeMatches that accepts every pull type.
PullTypeAlwaysMatches(context_data, req_type) == TRUE

\* the pull type check of _pull_response
PullTypeMatches(context_data, req_type) == context_data.pull_type = req_type

PullError(status, ctxs) ==
    [status |-> status, rtn |-> <<>>, eos |-> "", context_id |-> "",
     ctxs |-> ctxs]

_pull_response(db, ctxs, req_type, EnumerationContext, MaxObjectCount) ==
    IF EnumerationContext \notin DOMAIN ctxs
    THEN PullError("CIM_ERR_INVALID_ENUMERATION_CONTEXT", ctxs)
    ELSE IF ~validate_namespace(db, ctxs[EnumerationContext].namespace)
    THEN PullError("CIM_ERR_INVALID_NAMESPACE", ctxs)
    ELSE IF ~PullTypeMatches(ctxs[EnumerationContext], req_type)
    THEN PullError("CIM_ERR_INVALID_ENUMERATION_CONTEXT", ctxs)
    ELSE LET max_obj_cnt ==
                 IF IsNone(MaxObjectCount) \/ Val(MaxObjectCount) = 0
                 THEN _DEFAULT_MAX_OBJECT_COUNT
                 ELSE Val(MaxObjectCount)
         IN PullSlice(ctxs, EnumerationContext, max_obj_cnt)

\* A variant of _validate_open_params that accepts every parameter.
_validate_open_paramsAccepts(FilterQueryLanguage, FilterQuery, OperationTimeout) == "OK"

\* "OK" or the error _validate_open_params raises
_validate_open_params(FilterQueryLanguage, FilterQuery, OperationTimeout) ==
    LET fql == ~IsNone(FilterQueryLanguage) /\ Val(FilterQueryLanguage) # ""
        fq == ~IsNone(FilterQuery) /\ Val(FilterQuery) # ""
        ot == ~IsNone(OperationTimeout) /\ Val(OperationTimeout) # 0
    IN IF ~fql /\ fq THEN "CIM_ERR_INVALID_PARAMETER"
       ELSE IF fql /\ Val(FilterQueryLanguage) # "DMTF:FQL"
       THEN "CIM_ERR_QUERY_LANGUAGE_NOT_SUPPORTED"
       ELSE IF ot /\ (Val(OperationTimeout) < 0
                      \/ Val(OperationTimeout) > OPEN_MAX_TIMEOUT)
       THEN "CIM_ERR_INVALID_PARAMETER"
       ELSE "OK"

\* A variant of OpenPullType that stores the same pull type for every Open
\* request.
OpenPullTypeSame(op) == "PullInstancesWithPath"

\* the pull type each Open request stores in its context
OpenPullType(op) ==
    CASE op = "OpenEnumerateInstancePaths" -> "PullInstancePaths"
      [] op = "OpenEnumerateInstances" -> "PullInstancesWithPath"
      [] op = "OpenQueryInstances" -> "PullInstancesWithPath"

\* the non-paged operation each Open request runs
OpenUnderlying(db, op, a) ==
    CASE op = "OpenEnumerateInstancePaths" ->
            EnumerateInstanceNames(db, a.namespace, a.ClassName)
      [] op = "OpenEnumerateInstances" ->
            EnumerateInstances(db, a.namespace, a.ClassName, None,
                               a.DeepInheritance, None, a.IncludeClassOrigin,
                               a.PropertyList)
      [] op = "OpenQueryInstances" ->
            ExecQuery(db, a.namespace, a.FilterQueryLanguage, a.FilterQuery)

\* the common body of the Open requests
OpenRequest(db, ctxs, cnt, disabled, op, a) ==
    IF disabled THEN PullError("CIM_ERR_NOT_SUPPORTED", ctxs)
    ELSE IF ~validate_namespace(db, a.namespace)
    THEN PullError("CIM_ERR_INVALID_NAMESPACE", ctxs)
    ELSE LET v == _validate_open_params(a.FilterQueryLanguage, a.FilterQuery,
                                        a.OperationTimeout) IN
         IF v # "OK" THEN PullError(v, ctxs)
         ELSE LET Respond(r) ==
                      IF r.status # "OK" THEN PullError(r.status, ctxs)
                      ELSE _open_response(ctxs, cnt, a.namespace, r.rtn,
                                          OpenPullType(op), a.OperationTimeout,
                                          a.MaxObjectCount, a.ContinueOnError)
              IN OneOf({Respond(r) : r \in {OpenUnderlying(db, op, a)}})

\* PullInstancesWithPath, PullInstancePaths, PullInstances
PullRequest(db, ctxs, disabled, op, EnumerationContext, MaxObjectCount) ==
    IF disabled THEN PullError("CIM_ERR_NOT_SUPPORTED", ctxs)
    ELSE _pull_response(db, ctxs, op, EnumerationContext, MaxObjectCount)

\* A variant of CloseEnumeration that does not look at the host flag.
CloseEnumerationUnchecked(ctxs, disabled, EnumerationContext) ==
    IF EnumerationContext \in DOMAIN ctxs
    THEN [status |-> "OK", rtn |-> <<>>, eos |-> "", context_id |-> "",
          ctxs |-> DictDel(ctxs, EnumerationContext)]
    ELSE PullError("CIM_ERR_INVALID_ENUMERATION_CONTEXT", ctxs)

CloseEnumeration(ctxs, disabled, EnumerationContext) ==
    IF disabled THEN PullError("CIM_ERR_NOT_SUPPORTED", ctxs)
    ELSE IF EnumerationContext \in DOMAIN ctxs
    THEN [status |-> "OK", rtn |-> <<>>, eos |-> "", context_id |-> "",
          ctxs |-> DictDel(ctxs, EnumerationContext)]
    ELSE PullError("CIM_ERR_INVALID_ENUMERATION_CONTEXT", ctxs)

-----------------------------------------------------------------------------
(* Request inputs *)

KeyDecl == [name |-> "Key", type |-> "boolean"]

CIM_A_Class ==
    [classname |-> "CIM_A", superclass |-> None, qualifiers |-> {},
     properties |->
        ("k" :> Prop("k", "string", None, {"key"}, None, None)
         @@ "p" :> Prop("p", "string", Some("d"), {}, None, None))]

CIM_Namespace_Class ==
    [classname |-> "CIM_Namespace", superclass |-> None, qualifiers |-> {},
     properties |->
        [k \in {"name", "creationclassname", "objectmanagername",
                "objectmanagercreationclassname", "systemname",
                "systemcreationclassname"} |->
            Prop(CASE k = "name" -> "Name"
                   [] k = "creationclassname" -> "CreationClassName"
                   [] k = "objectmanagername" -> "ObjectManagerName"
                   [] k = "objectmanagercreationclassname" ->
                         "ObjectManagerCreationClassName"
                   [] k = "systemname" -> "SystemName"
                   [] k = "systemcreationclassname" ->
                         "SystemCreationClassName",
                 "string", None, {"key"}, None, None)]]

PG_Namespace_Class ==
    [classname |-> "PG_Namespace", superclass |-> Some("CIM_Namespace"),
     qualifiers |-> {}, properties |-> << >>]

\* a new instance of CIM_A with key k
InstA(k) == [classname |-> "CIM_A", properties |-> ("k" :> StrProp("k", k))]

\* a new instance of a namespace creation class naming namespace n
InstNs(classname, n) ==
    [classname |-> classname, properties |-> ("name" :> StrProp("Name", n))]

KeyVals == <<"1", "2", "3", "4">>

\* the repository with n instances of CIM_A in namespace root and nothing
\* else, built by the requests that create it (a set of one repository)
RECURSIVE Populated(_)
Populated(n) ==
    IF n = 0
    THEN {DeleteQualifier(d3, "root", "key").db :
            d3 \in {CreateClass(d2, "root", CIM_A_Class).db :
                d2 \in {SetQualifier(d1, "root", KeyDecl).db :
                    d1 \in {add_namespace(EmptyDb, "root").db}}}}
    ELSE {CreateInstance(db, "root", InstA(KeyVals[n])).db :
            db \in Populated(n - 1)}

NoFilter == [FilterQueryLanguage |-> None, FilterQuery |-> None,
             OperationTimeout |-> None]

OpenArgs(namespace, ClassName, MaxObjectCount, f) ==
    [namespace |-> namespace, ClassName |-> ClassName,
     DeepInheritance |-> None, IncludeClassOrigin |-> None,
     PropertyList |-> None,
     FilterQueryLanguage |-> f.FilterQueryLanguage,
     FilterQuery |-> f.FilterQuery,
     OperationTimeout |-> f.OperationTimeout,
     ContinueOnError |-> None, MaxObjectCount |-> MaxObjectCount]

OpenCounts == {None, Some(0), Some(1), Some(2)}
PullCounts == {None, Some(0), Some(1)}

Filters ==
    {[FilterQueryLanguage |-> Some("DMTF:FQL"), FilterQuery |-> Some("q"),
      OperationTimeout |-> Some(OPEN_MAX_TIMEOUT)],
     [FilterQueryLanguage |-> None, FilterQuery |-> Some("q"),
      OperationTimeout |-> None],
     [FilterQueryLanguage |-> Some("WQL"), FilterQuery |-> Some("q"),
      OperationTimeout |-> None],
     [FilterQueryLanguage |-> None, FilterQuery |-> None,
      OperationTimeout |-> Some(OPEN_MAX_TIMEOUT + 1)],
     [FilterQueryLanguage |-> Some("DMTF:FQL"), FilterQuery |-> None,
      OperationTimeout |-> Some(-1)]}

PathInputs ==
    {OpenArgs("root", "CIM_A", cnt, NoFilter) : cnt \in OpenCounts}
    \cup {OpenArgs("ns1", "CIM_A", Some(1), NoFilter),
          OpenArgs("root", "CIM_X", Some(1), NoFilter)}

OpenInputs ==
    PathInputs
    \cup {OpenArgs("root", "cim_a", Some(1), f) : f \in Filters}
    \cup {OpenArgs("root", "CIM_X", Some(1), f) : f \in Filters}

QueryInputs == {OpenArgs("root", "CIM_A", Some(1), f) : f \in Filters}

ContextInputs == {UuidStrings[i] : i \in 1..MaxContexts} \cup {"nonexistent"}

OpenOps == {"OpenEnumerateInstancePaths", "OpenEnumerateInstances",
            "OpenQueryInstances"}
PullOps == {"PullInstancesWithPath", "PullInstancePaths", "PullInstances"}

-----------------------------------------------------------------------------
(* Requests as steps of the responder *)

\* the response of a request; ctx is the context id a Pull or Close request
\* was given
Response(op, r) ==
    [op |-> op, status |-> r.status, rtn |-> r.rtn, eos |-> r.eos,
     context_id |-> r.context_id, ctx |-> ""]

RepoResponse(op, r) ==
    [op |-> op, status |-> r.status, rtn |-> <<>>, eos |-> "",
     context_id |-> "", ctx |-> ""]

SetDb(db) ==
    /\ namespaces' = db.namespaces
    /\ class_store' = db.class_store
    /\ instance_store' = db.instance_store
    /\ qualifier_store' = db.qualifier_store

\* The history of a session: the full result of its Open request, the pages
\* delivered so far, and whether it is open, drained by a pull or closed.
\* The pages of a session that is over are kept until the next request.
ClosedSession == [all |-> <<>>, pages |-> <<>>, state |-> "closed"]

Forget(h) ==
    [c \in DOMAIN h |-> IF h[c].state = "open" THEN h[c] ELSE ClosedSession]

OpenCall(op, a) ==
    \E r \in {OpenRequest(Db, enumeration_contexts, uuid_count,
                          disable_pull_operations, op, a)} :
       /\ r.context_id = "" \/ uuid_count < MaxContexts
       /\ enumeration_contexts' = r.ctxs
       /\ uuid_count' = IF r.context_id = "" THEN uuid_count
                        ELSE uuid_count + 1
       /\ last' = Response(op, r)
       /\ sessions' =
            IF r.context_id = "" THEN Forget(sessions)
            ELSE DictSet(Forget(sessions), r.context_id,
                    [all |-> OpenUnderlying(Db, op, a).rtn,
                     pages |-> <<r.rtn>>, state |-> "open"])
       /\ UNCHANGED <<threads, repo_vars, disable_pull_operations>>

OpenEnumerateInstancePaths(a) == OpenCall("OpenEnumerateInstancePaths", a)
OpenEnumerateInstances(a) == OpenCall("OpenEnumerateInstances", a)
OpenQueryInstances(a) == OpenCall("OpenQueryInstances", a)

PullCall(op, EnumerationContext, MaxObjectCount) ==
    \E r \in {PullRequest(Db, enumeration_contexts, disable_pull_operations,
                          op, EnumerationContext, MaxObjectCount)} :
       /\ enumeration_contexts' = r.ctxs
       /\ last' = [Response(op, r) EXCEPT !.ctx = EnumerationContext]
       /\ sessions' =
            IF r.status # "OK" THEN Forget(sessions)
            ELSE [Forget(sessions) EXCEPT
                    ![EnumerationContext].pages = Append(@, r.rtn),
                    ![EnumerationContext].state =
                        IF r.eos = "TRUE" THEN "drained" ELSE @]
       /\ UNCHANGED <<threads, repo_vars, uuid_count, disable_pull_operations>>

PullInstancesWithPath(c, n) == PullCall("PullInstancesWithPath", c, n)
PullInstancePaths(c, n) == PullCall("PullInstancePaths", c, n)
PullInstances(c, n) == PullCall("PullInstances", c, n)

CloseEnumerationCall(EnumerationContext) ==
    \E r \in {CloseEnumeration(enumeration_contexts,
                               disable_pull_operations, EnumerationContext)} :
       /\ enumeration_contexts' = r.ctxs
       /\ last' = [Response("CloseEnumeration", r)
                      EXCEPT !.ctx = EnumerationContext]
       /\ sessions' =
            IF r.status = "OK"
            THEN DictSet(Forget(sessions), EnumerationContext, ClosedSession)
            ELSE Forget(sessions)
       /\ UNCHANGED <<threads, repo_vars, uuid_count, disable_pull_operations>>

\* the host sets or clears conn.disable_pull_operations
SetDisablePullOperations(b) ==
    /\ disable_pull_operations # b
    /\ disable_pull_operations' = b
    /\ last' = [op |-> "disable_pull_operations", status |-> "OK",
                rtn |-> <<>>, eos |-> "", context_id |-> "", ctx |-> ""]
    /\ sessions' = Forget(sessions)
    /\ UNCHANGED <<threads, repo_vars, enumeration_contexts, uuid_count>>

RepoCall(op, result) ==
    \E r \in {result} :
       /\ SetDb(r.db)
       /\ last' = RepoResponse(op, r)
       /\ sessions' = Forget(sessions)
       /\ UNCHANGED <<threads, enumeration_contexts, uuid_count,
                      disable_pull_operations>>

SetQualifierCall(ns, q) == RepoCall("SetQualifier", SetQualifier(Db, ns, q))

DeleteQualifierCall(ns, name) ==
    RepoCall("DeleteQualifier", DeleteQualifier(Db, ns, name))

CreateClassCall(ns, c) == RepoCall("CreateClass", CreateClass(Db, ns, c))

DeleteClassCall(ns, cln) == RepoCall("DeleteClass", DeleteClass(Db, ns, cln))

CreateInstanceCall(ns, inst) ==
    \E r \in {CreateInstance(Db, ns, inst)} :
       /\ Len(instance_store[ns]) < MaxInstances
       /\ SetDb(r.db)
       /\ last' = [RepoResponse("CreateInstance", r) EXCEPT !.rtn = r.rtn]
       /\ sessions' = Forget(sessions)
       /\ UNCHANGED <<threads, enumeration_contexts, uuid_count,
                      disable_pull_operations>>

DeleteInstanceCall(ns, iname) ==
    RepoCall("DeleteInstance", DeleteInstance(Db, ns, iname))

add_namespaceCall(ns) == RepoCall("add_namespace", add_namespace(Db, ns))

remove_namespaceCall(ns) ==
    RepoCall("remove_namespace", remove_namespace(Db, ns))

NoCall == [op |-> "", status |-> "", rtn |-> <<>>, eos |-> "",
           context_id |-> "", ctx |-> ""]

-----------------------------------------------------------------------------
(* Enumeration sessions over a populated repository *)

InitPull ==
    /\ \E n \in 1..MaxObjs : \E db \in Populated(n) :
          /\ namespaces = db.namespaces
          /\ class_store = db.class_store
          /\ instance_store = db.instance_store
          /\ qualifier_store = db.qualifier_store
    /\ enumeration_contexts = << >>
    /\ uuid_count = 0
    /\ disable_pull_operations = FALSE
    /\ last = NoCall
    /\ sessions = << >>
    /\ threads = << >>

NextPull ==
    \/ \E a \in PathInputs : OpenEnumerateInstancePaths(a)
    \/ \E a \in OpenInputs : OpenEnumerateInstances(a)
    \/ \E a \in QueryInputs : OpenQueryInstances(a)
    \/ \E c \in ContextInputs, n \in PullCounts : PullInstancesWithPath(c, n)
    \/ \E c \in ContextInputs, n \in PullCounts : PullInstancePaths(c, n)
    \/ \E c \in ContextInputs, n \in PullCounts : PullInstances(c, n)
    \/ \E c \in ContextInputs : CloseEnumerationCall(c)
    \/ \E b \in BOOLEAN : SetDisablePullOperations(b)
    \/ DeleteClassCall("root", "CIM_A")
    \/ remove_namespaceCall("root")

SpecPull == InitPull /\ [][NextPull]_vars

-----------------------------------------------------------------------------
(* Properties of the enumeration sessions, checked under SpecPull *)

\* the count a pull request uses: the default when absent or zero
RequestedCount(n) ==
    IF IsNone(n) THEN _DEFAULT_MAX_OBJECT_COUNT
    ELSE IF Val(n) = 0 THEN _DEFAULT_MAX_OBJECT_COUNT ELSE Val(n)

\* the objects delivered so far in session c, in order
Delivered(c) == Flatten(sessions[c].pages)

\* a Pull request of type op on context c can pass the checks of
\* _pull_response: pull operations are enabled, c is in the table, its
\* namespace exists and its pull type is op
PullAdmissible(op, c) ==
    /\ ~disable_pull_operations
    /\ c \in DOMAIN enumeration_contexts
    /\ enumeration_contexts[c].namespace \in namespaces
    /\ enumeration_contexts[c].pull_type = op

\* C1 (paged completeness): when a session ends with a pull that returns
\* endOfSequence=true, the Open page followed by all pull pages, in order, is
\* the list the non-paged operation returned at Open time.  The code breaks
\* it: a pull that leaves objects behind raises after deleting its page from
\* the context, so that page is never delivered.
C1_PagedCompleteness ==
    \A c \in DOMAIN sessions :
        sessions[c].state = "drained" => Delivered(c) = sessions[c].all

\* C2 (pull protocol): a pull on an open context of the matching type that
\* holds more objects than the count succeeds with the head objects,
\* endOfSequence=false, and the context keeps exactly the rest; a pull that
\* drains the data returns endOfSequence=true, an empty context id, and
\* removes the context.  The code breaks the first half.
C2_PullProtocol ==
    [][\A op \in PullOps, c \in ContextInputs, n \in PullCounts :
          (PullAdmissible(op, c) /\ PullCall(op, c, n)) =>
              LET data == enumeration_contexts[c].data
                  cnt == RequestedCount(n)
              IN /\ last'.status = "OK"
                 /\ IF Len(data) > cnt
                    THEN /\ last'.rtn = SliceTo(data, cnt)
                         /\ last'.eos = "FALSE"
                         /\ c \in DOMAIN enumeration_contexts'
                         /\ enumeration_contexts'[c].data =
                                SliceFrom(data, cnt)
                    ELSE /\ last'.rtn = data
                         /\ last'.eos = "TRUE"
                         /\ last'.context_id = ""
                         /\ c \notin DOMAIN enumeration_contexts'
       ]_vars

\* C3 (paged disjointness): within one session the delivered objects are
\* taken from strictly increasing positions of the list computed at Open
\* time, so no position is delivered in more than one page.
C3_PagedDisjointness ==
    \A c \in DOMAIN sessions :
        LET d == Delivered(c)
            all == sessions[c].all
        IN /\ \A i \in 1..Len(d) : \E p \in 1..Len(all) : all[p] = d[i]
           /\ \A i, j \in 1..Len(d) :
                 i < j => \E p, q \in 1..Len(all) :
                             p < q /\ all[p] = d[i] /\ all[q] = d[j]

\* a session delivered two non-empty pages, the second one by a pull
C3_Witness ==
    \E c \in DOMAIN sessions :
        /\ sessions[c].state = "drained"
        /\ Len(sessions[c].pages) = 2
        /\ sessions[c].pages[1] # <<>>
        /\ sessions[c].pages[2] # <<>>

\* C4 (Open protocol): with N = MaxObjectCount (100 when absent) and
\* all = the result of the non-paged operation, an Open request whose
\* non-paged operation succeeds returns (all, true, "") and leaves the
\* session table alone when |all| <= N; otherwise it returns all[:N], false
\* and a fresh non-empty context id, and adds exactly one entry holding
\* all[N:], the request namespace and the pull type of the Open variant.
C4_OpenProtocol ==
    [][\A op \in OpenOps, a \in OpenInputs \cup QueryInputs :
          (/\ ~disable_pull_operations
           /\ a.namespace \in namespaces
           /\ _validate_open_params(a.FilterQueryLanguage, a.FilterQuery,
                                    a.OperationTimeout) = "OK"
           /\ OpenUnderlying(Db, op, a).status = "OK"
           /\ OpenCall(op, a)) =>
              LET all == OpenUnderlying(Db, op, a).rtn
                  N == IF IsNone(a.MaxObjectCount)
                       THEN _DEFAULT_MAX_OBJECT_COUNT
                       ELSE Val(a.MaxObjectCount)
                  id == last'.context_id
              IN /\ last'.status = "OK"
                 /\ IF Len(all) <= N
                    THEN /\ last'.rtn = all
                         /\ last'.eos = "TRUE"
                         /\ id = ""
                         /\ enumeration_contexts' = enumeration_contexts
                    ELSE /\ last'.rtn = SliceTo(all, N)
                         /\ last'.eos = "FALSE"
                         /\ id # ""
                         /\ id \notin DOMAIN sessions
                         /\ DOMAIN enumeration_contexts' =
                                DOMAIN enumeration_contexts \cup {id}
                         /\ \A c \in DOMAIN enumeration_contexts :
                               enumeration_contexts'[c] =
                                   enumeration_contexts[c]
                         /\ enumeration_contexts'[id].data = SliceFrom(all, N)
                         /\ enumeration_contexts'[id].namespace = a.namespace
                         /\ enumeration_contexts'[id].pull_type =
                                IF op = "OpenEnumerateInstancePaths"
                                THEN "PullInstancePaths"
                                ELSE "PullInstancesWithPath"
       ]_vars

\* an Open request returned a non-empty first page and opened a context
C4_Witness ==
    /\ last.op \in OpenOps
    /\ last.status = "OK"
    /\ last.eos = "FALSE"
    /\ last.rtn # <<>>
    /\ last.context_id \in DOMAIN enumeration_contexts
    /\ enumeration_contexts[last.context_id].data # <<>>

\* C5 (session lifecycle): the contexts in the table are exactly the sessions
\* opened and neither closed nor drained since, and while pull operations are
\* enabled every Pull or CloseEnumeration request on the id of a session that
\* was closed or drained fails with INVALID_ENUMERATION_CONTEXT.
C5_SessionLifecycle ==
    /\ [](DOMAIN enumeration_contexts =
             {c \in DOMAIN sessions : sessions[c].state = "open"})
    /\ [][\A c \in ContextInputs :
             (/\ ~disable_pull_operations
              /\ c \in DOMAIN sessions
              /\ sessions[c].state # "open"
              /\ \/ CloseEnumerationCall(c)
                 \/ \E op \in PullOps, n \in PullCounts : PullCall(op, c, n))
             => /\ last'.status = "CIM_ERR_INVALID_ENUMERATION_CONTEXT"
                /\ UNCHANGED enumeration_contexts
          ]_vars

\* a request on the id of a session that is over was refused
C5_Witness ==
    /\ last.op \in PullOps \cup {"CloseEnumeration"}
    /\ last.status = "CIM_ERR_INVALID_ENUMERATION_CONTEXT"
    /\ last.ctx \in DOMAIN sessions
    /\ sessions[last.ctx].state = "closed"

\* C6 (pull validation): while pull operations are enabled, a pull with an id
\* that is not in the table fails INVALID_ENUMERATION_CONTEXT, a pull on a
\* context whose namespace no longer exists fails, a pull of another type
\* than the context's fails INVALID_ENUMERATION_CONTEXT, and in each case
\* the table with the data of every context is unchanged.
C6_PullValidation ==
    [][\A op \in PullOps, c \in ContextInputs, n \in PullCounts :
          (~disable_pull_operations /\ PullCall(op, c, n)) =>
              IF c \notin DOMAIN enumeration_contexts
              THEN /\ last'.status = "CIM_ERR_INVALID_ENUMERATION_CONTEXT"
                   /\ UNCHANGED enumeration_contexts
              ELSE IF enumeration_contexts[c].namespace \notin namespaces
              THEN /\ last'.status # "OK"
                   /\ UNCHANGED enumeration_contexts
              ELSE IF enumeration_contexts[c].pull_type # op
              THEN /\ last'.status = "CIM_ERR_INVALID_ENUMERATION_CONTEXT"
                   /\ UNCHANGED enumeration_contexts
              ELSE TRUE
       ]_vars

\* a pull was refused because the namespace of its context is gone, and the
\* context is still in the table
C6_Witness ==
    /\ last.op \in PullOps
    /\ last.status = "CIM_ERR_INVALID_NAMESPACE"
    /\ last.ctx \in DOMAIN enumeration_contexts
    /\ enumeration_contexts[last.ctx].data # <<>>

\* C7 (error atomicity): a request that ends with an error leaves the
\* namespaces, the three stores and the session table as they were.  The code
\* breaks it: the pull that raises has already deleted its page from the
\* context.
C7_ErrorAtomicity ==
    [][last'.status # "OK" => UNCHANGED <<repo_vars, enumeration_contexts>>
      ]_vars

-----------------------------------------------------------------------------
(* Requests that change the repository, from an empty datastore *)

\* a new instance of a namespace creation class without the property Name
InstNsNoName(classname) ==
    [classname |-> classname,
     properties |-> ("systemname" :> StrProp("SystemName", "s"))]

\* the instance name of the instance CreateInstance stores for a namespace
\* creation class cln and the namespace n
NsPath(classname, cln, n) ==
    [classname |-> classname, namespace |-> None, host |-> None,
     keybindings |->
        [k \in {"name", "creationclassname", "objectmanagername",
                "objectmanagercreationclassname", "systemname",
                "systemcreationclassname"} |->
            LET pr == NamespaceProperties(InstNs(cln, n).properties, cln)[k]
            IN [name |-> pr.name, value |-> Val(pr.value)]]]

\* the instance name of InstA(k) in namespace ns
APath(ns, k) ==
    [classname |-> "CIM_A", namespace |-> Some(ns), host |-> None,
     keybindings |-> ("k" :> [name |-> "k", value |-> k])]

NamespaceInputs == {"root", "/ns1/"}

QualifierInputs == {<<"root", "key">>, <<"ns1", "key">>}

ClassInputs ==
    {<<"root", CIM_Namespace_Class>>, <<"root", PG_Namespace_Class>>,
     <<"ns1", CIM_A_Class>>}

InstanceInputs ==
    {<<"root", InstNs("PG_Namespace", "/ns1/")>>,
     <<"root", InstNs("cim_namespace", "ns1")>>,
     <<"root", InstNs("CIM_Namespace", "root")>>,
     <<"root", InstNsNoName("PG_Namespace")>>,
     <<"ns1", InstA("1")>>}

InstanceNameInputs ==
    {<<"root", NsPath("pg_namespace", "PG_Namespace", "ns1")>>,
     <<"root", NsPath("CIM_Namespace", "CIM_Namespace", "ns1")>>,
     <<"ns1", APath("ns1", "1")>>}

InitRepo ==
    /\ namespaces = EmptyDb.namespaces
    /\ class_store = EmptyDb.class_store
    /\ instance_store = EmptyDb.instance_store
    /\ qualifier_store = EmptyDb.qualifier_store
    /\ enumeration_contexts = << >>
    /\ uuid_count = 0
    /\ disable_pull_operations = FALSE
    /\ last = NoCall
    /\ sessions = << >>
    /\ threads = << >>

NextRepo ==
    \/ \E ns \in NamespaceInputs : add_namespaceCall(ns)
    \/ \E ns \in NamespaceInputs : remove_namespaceCall(ns)
    \/ \E q \in QualifierInputs : SetQualifierCall(q[1], KeyDecl)
    \/ \E q \in QualifierInputs : DeleteQualifierCall(q[1], q[2])
    \/ \E c \in ClassInputs : CreateClassCall(c[1], c[2])
    \/ \E c \in ClassInputs : DeleteClassCall(c[1], c[2].classname)
    \/ \E i \in InstanceInputs : CreateInstanceCall(i[1], i[2])
    \/ \E i \in InstanceNameInputs : DeleteInstanceCall(i[1], i[2])

SpecRepo == InitRepo /\ [][NextRepo]_vars

-----------------------------------------------------------------------------
(* Properties of the namespace handling, checked under SpecRepo *)

\* classname is one of the namespace creation classes, in any casing
IsNamespaceClass(classname) ==
    Lower(classname) \in {"pg_namespace", "cim_namespace"}

\* namespace n holds a class, an instance or a qualifier declaration
Holds(n) ==
    \/ class_store[n] # <<>>
    \/ instance_store[n] # <<>>
    \/ qualifier_store[n] # <<>>

\* C8 (namespace creation through CreateInstance): for a new instance of
\* PG_Namespace or CIM_Namespace, in any casing, whose class exists in the
\* request namespace: without Name the request fails INVALID_PARAMETER; with
\* Name = n and the namespace n (slashes stripped) present it fails
\* ALREADY_EXISTS; a failing request stores no instance and adds no
\* namespace; a successful one adds exactly the namespace n and stores the
\* instance in the request namespace.
C8_NamespaceCreation ==
    [][\A i \in InstanceInputs :
          (/\ IsNamespaceClass(i[2].classname)
           /\ i[1] \in namespaces
           /\ ClassExists(class_store[i[1]], i[2].classname)
           /\ CreateInstanceCall(i[1], i[2])) =>
              /\ "name" \notin DOMAIN i[2].properties =>
                    last'.status = "CIM_ERR_INVALID_PARAMETER"
              /\ "name" \in DOMAIN i[2].properties =>
                    LET n == StripSlash(Val(i[2].properties["name"].value))
                    IN /\ n \in namespaces =>
                             last'.status = "CIM_ERR_ALREADY_EXISTS"
                       /\ last'.status = "OK" =>
                             /\ namespaces' = namespaces \cup {n}
                             /\ n \notin namespaces
                             /\ Len(instance_store'[i[1]]) =
                                    Len(instance_store[i[1]]) + 1
                             /\ \E x \in Range(instance_store'[i[1]]) :
                                   /\ x.path = Val(last'.rtn)
                                   /\ x.classname = i[2].classname
                                   /\ x.properties["name"].value = Some(n)
              /\ last'.status # "OK" => UNCHANGED repo_vars
       ]_vars

\* a CreateInstance request created the namespace ns1 and stored its instance
C8_Witness ==
    /\ last.op = "CreateInstance"
    /\ last.status = "OK"
    /\ IsNamespaceClass(Val(last.rtn).classname)
    /\ "ns1" \in namespaces
    /\ InstExists(instance_store["root"], Val(last.rtn))

-----------------------------------------------------------------------------
(* MainProvider: read operations on classes, qualifiers and instances *)

\* A variant of EnumerateClassNames that always walks the whole hierarchy.
EnumerateClassNamesDeep(db, namespace, ClassName, DeepInheritance) ==
    IF ~validate_namespace(db, namespace)
    THEN [status |-> "CIM_ERR_INVALID_NAMESPACE", rtn |-> <<>>]
    ELSE IF ~ClassExists(db.class_store[namespace], ClassName)
    THEN [status |-> "CIM_ERR_INVALID_CLASS", rtn |-> <<>>]
    ELSE [status |-> "OK",
          rtn |-> _get_subclass_names(ClassName, db.class_store[namespace],
                                      TRUE)]

\* EnumerateClassNames with a class name
EnumerateClassNames(db, namespace, ClassName, DeepInheritance) ==
    IF ~validate_namespace(db, namespace)
    THEN [status |-> "CIM_ERR_INVALID_NAMESPACE", rtn |-> <<>>]
    ELSE IF ~ClassExists(db.class_store[namespace], ClassName)
    THEN [status |-> "CIM_ERR_INVALID_CLASS", rtn |-> <<>>]
    ELSE [status |-> "OK",
          rtn |-> _get_subclass_names(ClassName, db.class_store[namespace],
                                      Truthy(DeepInheritance))]

\* EnumerateClasses with a class name
EnumerateClasses(db, namespace, ClassName, DeepInheritance, LocalOnly, IncludeQualifiers, IncludeClassOrigin) ==
    IF ~validate_namespace(db, namespace)
    THEN [status |-> "CIM_ERR_INVALID_NAMESPACE", rtn |-> <<>>]
    ELSE IF ~ClassExists(db.class_store[namespace], ClassName)
    THEN [status |-> "CIM_ERR_INVALID_CLASS", rtn |-> <<>>]
    ELSE LET Classes(clns) ==
                [i \in 1..Len(clns) |->
                    _get_class(db.class_store[namespace], clns[i], LocalOnly,
                               IncludeQualifiers, IncludeClassOrigin, None)]
         IN [status |-> "OK",
             rtn |-> OneOf({Classes(clns) :
                       clns \in {_get_subclass_names(
                                    ClassName, db.class_store[namespace],
                                    Truthy(DeepInheritance))}})]

GetQualifier(db, namespace, QualifierName) ==
    IF ~validate_namespace(db, namespace)
    THEN [status |-> "CIM_ERR_INVALID_NAMESPACE", rtn |-> None]
    ELSE IF ~QualExists(db.qualifier_store[namespace], QualifierName)
    THEN [status |-> "CIM_ERR_NOT_FOUND", rtn |-> None]
    ELSE [status |-> "OK",
          rtn |-> Some(QualGet(db.qualifier_store[namespace], QualifierName))]

\* GetClass: the copy _get_class shapes; a class that is not stored fails in
\* _get_class
GetClass(db, namespace, ClassName, LocalOnly, IncludeQualifiers, IncludeClassOrigin, PropertyList) ==
    IF ~validate_namespace(db, namespace)
    THEN [status |-> "CIM_ERR_INVALID_NAMESPACE", rtn |-> None]
    ELSE IF ~ClassExists(db.class_store[namespace], ClassName)
    THEN [status |-> "CIM_ERR_NOT_FOUND", rtn |-> None]
    ELSE [status |-> "OK",
          rtn |-> Some(_get_class(db.class_store[namespace], ClassName,
                                  LocalOnly, IncludeQualifiers,
                                  IncludeClassOrigin, PropertyList))]

\* EnumerateQualifiers: the stored declarations in the order of the store
EnumerateQualifiers(db, namespace) ==
    IF ~validate_namespace(db, namespace)
    THEN [status |-> "CIM_ERR_INVALID_NAMESPACE", rtn |-> << >>]
    ELSE [status |-> "OK", rtn |-> db.qualifier_store[namespace]]

\* an instance name with its namespace defaulted to the request namespace
WithNamespace(InstanceName, namespace) ==
    [classname |-> InstanceName.classname,
     namespace |-> IF IsNone(InstanceName.namespace) THEN namespace
                   ELSE Val(InstanceName.namespace),
     host |-> InstanceName.host,
     keybindings |-> InstanceName.keybindings]

GetInstance(db, namespace, InstanceName, LocalOnly, IncludeQualifiers, IncludeClassOrigin, PropertyList) ==
    LET iname == WithNamespace(InstanceName, namespace) IN
    IF iname.namespace # namespace
    THEN [status |-> "CIM_ERR_INVALID_NAMESPACE", rtn |-> None]
    ELSE IF ~validate_namespace(db, namespace)
    THEN [status |-> "CIM_ERR_INVALID_NAMESPACE", rtn |-> None]
    ELSE IF ~ClassExists(db.class_store[namespace], iname.classname)
    THEN [status |-> "CIM_ERR_INVALID_CLASS", rtn |-> None]
    ELSE LET Result(r) == [status |-> r.status, rtn |-> r.inst]
         IN OneOf({Result(r) :
                r \in {_get_instance(db, namespace, iname, PropertyList,
                                     LocalOnly, IncludeClassOrigin,
                                     IncludeQualifiers)}})

-----------------------------------------------------------------------------
(* MainProvider: ModifyInstance *)

\* instance store: update the instance stored under path, in place
InstUpdate(is, path, inst) ==
    [i \in 1..Len(is) |->
        IF PathKey(is[i].path) = PathKey(path) THEN inst ELSE is[i]]

\* A variant of ChangedProperties that keeps every property of the modified
\* instance.
ChangedPropertiesAll(orig_props, mod_props) == mod_props

\* the modified instance after "del modified_instance[p]" for every property
\* whose value equals the value in the original instance
ChangedProperties(orig_props, mod_props) ==
    [k \in {x \in DOMAIN mod_props :
                orig_props[x].value # mod_props[x].value} |-> mod_props[k]]

\* A variant of KeyPropertyModified that never finds a key property.
KeyPropertyModifiedNever(target_class, mod_props) == FALSE

\* a key property of the class is left in the modified instance
KeyPropertyModified(target_class, mod_props) ==
    \E k \in KeyProps(target_class) : k \in DOMAIN mod_props

\* the modified instance after "del modified_instance[p]" for every property
\* with "p not in property_list": p is the name as the modified instance
\* spells it, property_list a list of strings
KeepListed(mod_props, property_list) ==
    IF IsNone(property_list) \/ property_list = Some({}) THEN mod_props
    ELSE [k \in {x \in DOMAIN mod_props :
                    mod_props[x].name \in Val(property_list)} |-> mod_props[k]]

\* the checks and the update that follow the lookup of the class and of the
\* original instance.  The step that would fill in class values (chngd_props)
\* never acts: every name of the modified instance was just checked to be in
\* the class, so the set difference it computes is empty.
ModifyStoredInstance(db, namespace, path, target_class, orig_instance, mod_props, property_list) ==
    IF ~IsNone(property_list)
       /\ \E p \in Val(property_list) :
             Lower(p) \notin DOMAIN target_class.properties
    THEN [status |-> "CIM_ERR_INVALID_PARAMETER", db |-> db]
    ELSE IF \E k \in DOMAIN mod_props : k \notin DOMAIN target_class.properties
    THEN [status |-> "CIM_ERR_INVALID_PARAMETER", db |-> db]
    ELSE IF \E k \in DOMAIN mod_props : k \notin DOMAIN orig_instance.properties
    THEN [status |-> "KeyError", db |-> db]
    ELSE
    LET changed == ChangedProperties(orig_instance.properties, mod_props) IN
    IF KeyPropertyModified(target_class, changed)
    THEN [status |-> "CIM_ERR_INVALID_PARAMETER", db |-> db]
    ELSE
    LET listed == KeepListed(changed, property_list) IN
    IF \E k \in DOMAIN listed :
          \/ listed[k].is_array # target_class.properties[k].is_array
          \/ listed[k].type # target_class.properties[k].type
    THEN [status |-> "CIM_ERR_INVALID_PARAMETER", db |-> db]
    ELSE
    LET named == [k \in DOMAIN listed |->
                    [listed[k] EXCEPT
                        !.name = target_class.properties[k].name]]
        updated == [orig_instance EXCEPT !.properties =
                        [k \in DOMAIN @ |->
                            IF k \in DOMAIN named THEN named[k] ELSE @[k]]]
    IN [status |-> "OK",
        db |-> [db EXCEPT !.instance_store[namespace] =
                              InstUpdate(@, path, updated)]]

\* A variant of ModifyInstance that returns for an empty PropertyList only
\* after it has looked up the class and the stored instance.
ModifyInstanceChecksFirst(db, namespace, ModifiedInstance, PropertyList) ==
    IF ~validate_namespace(db, namespace)
    THEN [status |-> "CIM_ERR_INVALID_NAMESPACE", db |-> db]
    ELSE IF Lower(ModifiedInstance.classname)
               # Lower(ModifiedInstance.path.classname)
    THEN [status |-> "CIM_ERR_INVALID_PARAMETER", db |-> db]
    ELSE IF ~ClassExists(db.class_store[namespace], ModifiedInstance.classname)
    THEN [status |-> "CIM_ERR_INVALID_CLASS", db |-> db]
    ELSE
    LET path == WithNamespace(ModifiedInstance.path, namespace) IN
    IF ~InstExists(db.instance_store[namespace], path)
    THEN [status |-> "CIM_ERR_NOT_FOUND", db |-> db]
    ELSE IF ~IsNone(PropertyList) /\ Val(PropertyList) = {}
    THEN [status |-> "OK", db |-> db]
    ELSE
    LET Modify(target_class, orig_instance) ==
            ModifyStoredInstance(db, namespace, path, target_class,
                                 orig_instance, ModifiedInstance.properties,
                                 PropertyList)
    IN OneOf({Modify(target_class, orig_instance) :
            target_class \in {_get_class(db.class_store[namespace],
                                         ModifiedInstance.classname,
                                         Some(FALSE), Some(TRUE), Some(TRUE),
                                         None)},
            orig_instance \in {InstGet(db.instance_store[namespace], path)}})

ModifyInstance(db, namespace, ModifiedInstance, PropertyList) ==
    IF ~validate_namespace(db, namespace)
    THEN [status |-> "CIM_ERR_INVALID_NAMESPACE", db |-> db]
    ELSE IF ~IsNone(PropertyList) /\ Val(PropertyList) = {}
    THEN [status |-> "OK", db |-> db]
    ELSE IF Lower(ModifiedInstance.classname)
               # Lower(ModifiedInstance.path.classname)
    THEN [status |-> "CIM_ERR_INVALID_PARAMETER", db |-> db]
    ELSE IF ~ClassExists(db.class_store[namespace], ModifiedInstance.classname)
    THEN [status |-> "CIM_ERR_INVALID_CLASS", db |-> db]
    ELSE
    LET path == WithNamespace(ModifiedInstance.path, namespace) IN
    IF ~InstExists(db.instance_store[namespace], path)
    THEN [status |-> "CIM_ERR_NOT_FOUND", db |-> db]
    ELSE
    LET Modify(target_class, orig_instance) ==
            ModifyStoredInstance(db, namespace, path, target_class,
                                 orig_instance, ModifiedInstance.properties,
                                 PropertyList)
    IN OneOf({Modify(target_class, orig_instance) :
            target_class \in {_get_class(db.class_store[namespace],
                                         ModifiedInstance.classname,
                                         Some(FALSE), Some(TRUE), Some(TRUE),
                                         None)},
            orig_instance \in {InstGet(db.instance_store[namespace], path)}})

-----------------------------------------------------------------------------
(* Requests on a class hierarchy with instances *)

\* a CIM instance with its path: the instance of the class named classname
\* with key k and the properties props next to the key property
InstWith(classname, k, props) ==
    [classname |-> classname,
     properties |-> props @@ ("k" :> StrProp("k", k)),
     path |-> [classname |-> classname, namespace |-> None, host |-> None,
               keybindings |-> ("k" :> [name |-> "k", value |-> k])]]

\* The parameters of the requests.  CIM_B extends CIM_A, CIM_C extends CIM_B
\* (named in lower case), CIM_D stands alone; CIM_X, which names itself as
\* its superclass, is never created.
HierInputs ==
    [NewClass |->
        {CIM_A_Class,
         [classname |-> "CIM_B", superclass |-> Some("CIM_A"),
          qualifiers |-> {},
          properties |-> ("q" :> Prop("q", "string", Some("e"), {}, None, None))],
         [classname |-> "CIM_C", superclass |-> Some("cim_b"),
          qualifiers |-> {}, properties |-> << >>],
         [classname |-> "CIM_D", superclass |-> None, qualifiers |-> {},
          properties |->
             ("k" :> Prop("k", "string", None, {"key"}, None, None))],
         [classname |-> "CIM_X", superclass |-> Some("cim_x"),
          qualifiers |-> {}, properties |-> << >>]},
     ClassName |-> {"CIM_A", "cim_b", "CIM_C", "CIM_D", "CIM_X"},
     NewInstance |->
        {InstWith("CIM_A", "1", << >>), InstWith("cim_b", "1", << >>),
         InstWith("CIM_C", "1", << >>), InstWith("CIM_D", "1", << >>)},
     ModifiedInstance |->
        {InstWith("CIM_B", "1", "p" :> StrProp("p", "x")),
         InstWith("CIM_D", "1", << >>)},
     InstanceName |->
        {InstWith("CIM_A", "1", << >>).path, InstWith("CIM_C", "1", << >>).path}]

\* A variant of copy that hands out the stored object itself, so that what
\* the request changes is changed in the store.
copyNever(obj, changed) == changed

\* The stored object obj after a request took obj.copy() or deepcopy(obj)
\* and changed the copy into changed.
copy(obj, changed) == obj

\* The repository after the read request op returned r.  The objects a
\* read request changes on its way out are the class _get_class shapes
\* (deepcopy(cls)), the instance _get_instance shapes (the copy made by
\* _find_instance) and the paths and instances that get the host of the
\* connection (path.copy(), r.copy(), p.copy(), the instance of
\* _get_instance); EnumerateClassNames, GetQualifier, EnumerateQualifiers
\* and the class branches of ReferenceNames and AssociatorNames change no
\* object.  A request that fails raises before it has changed an object
\* that is not a copy.
AfterRead(db, namespace, op, instance_level, r) ==
    LET same(p, q) == [PathKey(p) EXCEPT !.host = None]
                         = [PathKey(q) EXCEPT !.host = None]
        Insts(S) ==
          [i \in 1..Len(db.instance_store[namespace]) |->
             LET inst == db.instance_store[namespace][i] IN
             IF \E x \in S : same(inst.path, x.path)
             THEN copy(inst, CHOOSE x \in S : same(inst.path, x.path))
             ELSE inst]
        Paths(S) ==
          [i \in 1..Len(db.instance_store[namespace]) |->
             LET inst == db.instance_store[namespace][i] IN
             IF \E x \in S : same(inst.path, x)
             THEN [inst EXCEPT !.path =
                      copy(@, CHOOSE x \in S : same(inst.path, x))]
             ELSE inst]
        Values(S) ==
          [i \in 1..Len(db.instance_store[namespace]) |->
             LET inst == db.instance_store[namespace][i]
                 props == inst.properties
                 Read(prop) ==
                   /\ prop.type = "reference"
                   /\ ~IsNone(prop.value)
                   /\ \E x \in S : same(Val(prop.value), x)
             IN [inst EXCEPT !.properties =
                   [k \in DOMAIN props |->
                      IF Read(props[k])
                      THEN [props[k] EXCEPT !.value =
                              Some(copy(Val(props[k].value),
                                        CHOOSE x \in S :
                                           same(Val(props[k].value), x)))]
                      ELSE props[k]]]]
        Classes(S) ==
          [i \in 1..Len(db.class_store[namespace]) |->
             LET cls == db.class_store[namespace][i] IN
             IF \E x \in S : Lower(x.classname) = Lower(cls.classname)
             THEN copy(cls, CHOOSE x \in S :
                               Lower(x.classname) = Lower(cls.classname))
             ELSE cls]
    IN
    IF r.status # "OK" THEN db
    ELSE IF op \in {"GetInstance", "EnumerateInstances"}
    THEN [db EXCEPT !.instance_store[namespace] = Insts(Range(r.rtn))]
    ELSE IF op = "EnumerateInstanceNames"
    THEN [db EXCEPT !.instance_store[namespace] = Paths(Range(r.rtn))]
    ELSE IF op \in {"GetClass", "EnumerateClasses"}
    THEN [db EXCEPT !.class_store[namespace] = Classes(Range(r.rtn))]
    ELSE IF op \in {"References", "Associators"}
    THEN IF instance_level
         THEN [db EXCEPT !.instance_store[namespace] = Insts(r.rtn)]
         ELSE [db EXCEPT !.class_store[namespace] =
                            Classes({t[2] : t \in r.rtn})]
    ELSE IF op = "ReferenceNames" /\ instance_level
    THEN [db EXCEPT !.instance_store[namespace] = Paths(r.rtn)]
    ELSE IF op = "AssociatorNames" /\ instance_level
    THEN [db EXCEPT !.instance_store[namespace] = Values(r.rtn)]
    ELSE db

\* a request that reads the repository
ReadCall(op, ns, result) ==
    \E r \in {result} :
       /\ last' = [op |-> op, status |-> r.status, rtn |-> r.rtn, eos |-> "",
                   context_id |-> "", ctx |-> ""]
       /\ sessions' = Forget(sessions)
       /\ SetDb(AfterRead(Db, ns, op, TRUE, r))
       /\ UNCHANGED <<threads, enumeration_contexts, uuid_count,
                      disable_pull_operations>>

EnumerateClassNamesCall(ns, cln, di) ==
    ReadCall("EnumerateClassNames", ns, EnumerateClassNames(Db, ns, cln, di))

EnumerateClassesCall(ns, cln, di) ==
    ReadCall("EnumerateClasses", ns,
             EnumerateClasses(Db, ns, cln, di, None, None, None))

EnumerateInstanceNamesCall(ns, cln) ==
    ReadCall("EnumerateInstanceNames", ns, EnumerateInstanceNames(Db, ns, cln))

EnumerateInstancesCall(ns, cln, di) ==
    ReadCall("EnumerateInstances", ns,
             EnumerateInstances(Db, ns, cln, None, di, None, None, None))

ModifyInstanceCall(ns, inst, pl) ==
    RepoCall("ModifyInstance", ModifyInstance(Db, ns, inst, pl))

\* the repository with the namespace root and the qualifier declaration Key,
\* built by the requests that create it (a set of one repository)
WithKeyDecl ==
    {SetQualifier(d1, "root", KeyDecl).db :
        d1 \in {add_namespace(EmptyDb, "root").db}}

InitHier ==
    /\ \E db \in WithKeyDecl :
          /\ namespaces = db.namespaces
          /\ class_store = db.class_store
          /\ instance_store = db.instance_store
          /\ qualifier_store = db.qualifier_store
    /\ enumeration_contexts = << >>
    /\ uuid_count = 0
    /\ disable_pull_operations = FALSE
    /\ last = NoCall
    /\ sessions = << >>
    /\ threads = << >>

NextHier ==
    \/ \E c \in HierInputs.NewClass : CreateClassCall("root", c)
    \/ \E cln \in HierInputs.ClassName : DeleteClassCall("root", cln)
    \/ \E i \in HierInputs.NewInstance : CreateInstanceCall("root", i)
    \/ \E m \in HierInputs.ModifiedInstance : ModifyInstanceCall("root", m, None)
    \/ \E n \in HierInputs.InstanceName : DeleteInstanceCall("root", n)
    \/ \E cln \in HierInputs.ClassName, di \in {None, Some(TRUE)} :
          EnumerateClassNamesCall("root", cln, di)
    \/ \E cln \in HierInputs.ClassName, di \in {None, Some(TRUE)} :
          EnumerateClassesCall("root", cln, di)
    \/ \E cln \in HierInputs.ClassName : EnumerateInstanceNamesCall("root", cln)
    \/ \E cln \in HierInputs.ClassName, di \in {None, Some(FALSE)} :
          EnumerateInstancesCall("root", cln, di)

SpecHier == InitHier /\ [][NextHier]_vars

-----------------------------------------------------------------------------
(* Properties of the class hierarchy, checked under SpecHier *)

\* _get_superclass_names: the names of the superclasses of the class named
\* classname, the root first; the walk ends at a class that is not stored
RECURSIVE _get_superclass_names(_, _)
_get_superclass_names(classname, cs) ==
    IF ~ClassExists(cs, classname) THEN <<>>
    ELSE LET cln_superclass == ClassGet(cs, classname).superclass IN
         IF IsNone(cln_superclass) THEN <<>>
         ELSE Append(_get_superclass_names(Val(cln_superclass), cs),
                     Val(cln_superclass))

\* classname names the class C or a direct or indirect subclass of C
IsOrExtends(cs, classname, C) ==
    \/ Lower(classname) = Lower(C)
    \/ Lower(C) \in {Lower(n) : n \in Range(_get_superclass_names(classname, cs))}

\* the names of the classes of cs whose superclass is C
DirectSubclasses(cs, C) ==
    {c.classname : c \in {x \in Range(cs) :
        ~IsNone(x.superclass) /\ Lower(Val(x.superclass)) = Lower(C)}}

\* C11 (DeleteClass): on a class C that exists the request succeeds, the
\* class store becomes the previous one without C and every direct or
\* indirect subclass of C, the instance store the previous one without every
\* instance whose classname is, in any casing, C or one of those subclasses,
\* and every other class and instance is still stored; on a class that is
\* absent the request fails NOT_FOUND and changes nothing.
C11_DeleteClass ==
    [][\A cln \in HierInputs.ClassName :
          DeleteClassCall("root", cln) =>
             LET cs == class_store["root"]
                 Kept(name) == ~IsOrExtends(cs, name, cln)
             IN IF ~ClassExists(cs, cln)
                THEN /\ last'.status = "CIM_ERR_NOT_FOUND"
                     /\ UNCHANGED repo_vars
                ELSE /\ last'.status = "OK"
                     /\ class_store'["root"] =
                            SelectSeq(cs, LAMBDA c : Kept(c.classname))
                     /\ instance_store'["root"] =
                            SelectSeq(instance_store["root"],
                                      LAMBDA x : Kept(x.classname))
                     /\ UNCHANGED <<namespaces, qualifier_store>>
       ]_vars

\* DeleteClass succeeded and left the class CIM_D, which stands alone, and
\* its instance, and nothing else
C11_Witness ==
    /\ last.op = "DeleteClass"
    /\ last.status = "OK"
    /\ Len(class_store["root"]) = 1
    /\ class_store["root"][1].classname = "CIM_D"
    /\ Len(instance_store["root"]) = 1
    /\ instance_store["root"][1].classname = "CIM_D"

\* C12 (invariant I4, class existence): every instance stored in a namespace
\* has a classname that exists in the class store of that namespace.
C12_ClassExistence ==
    \A ns \in namespaces :
       \A x \in Range(instance_store[ns]) :
          ClassExists(class_store[ns], x.classname)

\* DeleteClass succeeded and instances of other classes are still stored
C12_Witness ==
    /\ last.op = "DeleteClass"
    /\ last.status = "OK"
    /\ instance_store["root"] # <<>>
    /\ class_store["root"] # <<>>

\* C13 (invariant I2, superclass resolves): every stored class whose
\* superclass is set has that superclass stored in the same namespace, and
\* CreateClass with a superclass that is not stored in the namespace fails
\* INVALID_SUPERCLASS and stores nothing.
C13_SuperclassResolves ==
    /\ [](\A ns \in namespaces :
             \A c \in Range(class_store[ns]) :
                ~IsNone(c.superclass) =>
                    ClassExists(class_store[ns], Val(c.superclass)))
    /\ [][\A c \in HierInputs.NewClass :
             (/\ ~IsNone(c.superclass)
              /\ ~ClassExists(class_store["root"], Val(c.superclass))
              /\ CreateClassCall("root", c)) =>
                 /\ last'.status = "CIM_ERR_INVALID_SUPERCLASS"
                 /\ UNCHANGED repo_vars
         ]_vars

\* DeleteClass succeeded and a class with a superclass is still stored
C13_Witness ==
    /\ last.op = "DeleteClass"
    /\ last.status = "OK"
    /\ \E c \in Range(class_store["root"]) : ~IsNone(c.superclass)

\* C20 (enumeration defaults): for a class C that exists and DeepInheritance
\* not given, EnumerateInstances returns one instance for every stored
\* instance whose class is C or a direct or indirect subclass of C,
\* EnumerateInstanceNames returns exactly the paths of those instances, and
\* EnumerateClasses and EnumerateClassNames return only the direct
\* subclasses of C.
C20_EnumerationDefaults ==
    [][\A cln \in HierInputs.ClassName :
          ClassExists(class_store["root"], cln) =>
             LET cs == class_store["root"]
                 insts == SelectSeq(instance_store["root"],
                             LAMBDA x : IsOrExtends(cs, x.classname, cln))
                 paths == [i \in 1..Len(insts) |-> insts[i].path]
                 direct == DirectSubclasses(cs, cln)
             IN /\ (/\ last'.op = "EnumerateInstances"
                    /\ EnumerateInstancesCall("root", cln, None)) =>
                      /\ last'.status = "OK"
                      /\ [i \in 1..Len(last'.rtn) |-> last'.rtn[i].path]
                            = paths
                /\ (/\ last'.op = "EnumerateInstanceNames"
                    /\ EnumerateInstanceNamesCall("root", cln)) =>
                      /\ last'.status = "OK"
                      /\ last'.rtn = paths
                /\ (/\ last'.op = "EnumerateClasses"
                    /\ EnumerateClassesCall("root", cln, None)) =>
                      /\ last'.status = "OK"
                      /\ {c.classname : c \in Range(last'.rtn)} = direct
                      /\ Len(last'.rtn) = Cardinality(direct)
                /\ (/\ last'.op = "EnumerateClassNames"
                    /\ EnumerateClassNamesCall("root", cln, None)) =>
                      /\ last'.status = "OK"
                      /\ Range(last'.rtn) = direct
                      /\ Len(last'.rtn) = Cardinality(direct)
       ]_vars

\* EnumerateInstances returned an instance of the class and an instance of
\* an indirect subclass of it
C20_Witness ==
    /\ last.op = "EnumerateInstances"
    /\ last.status = "OK"
    /\ Len(last.rtn) = 2
    /\ {x.classname : x \in Range(last.rtn)} = {"CIM_A", "CIM_C"}

-----------------------------------------------------------------------------
(* Requests on the instances of one class *)

\* The parameters of the requests on class CIM_A (key k, property p with the
\* default "d").  NewInstance: two instances that are accepted, the second
\* with names in another casing; an instance with the key of the first and
\* another p; then, in this order, no key property, a property the class does
\* not declare, p of another type, p as an array, a class that is absent;
\* ModifyInstance gets each of them with an empty PropertyList.
InstInputs ==
    [NewInstance |->
        {InstWith("CIM_A", "1", << >>),
         InstWith("cim_a", "2", "p" :> StrProp("P", "x")),
         InstWith("CIM_A", "1", "p" :> StrProp("p", "y")),
         [InstWith("CIM_A", "1", << >>) EXCEPT
             !.properties = ("p" :> StrProp("p", "x"))],
         InstWith("CIM_A", "1", "z" :> StrProp("z", "v")),
         InstWith("CIM_A", "1",
                  "p" :> Prop("p", "uint8", Some("x"), {}, None, None)),
         InstWith("CIM_A", "1",
                  "p" :> [StrProp("p", "x") EXCEPT !.is_array = TRUE]),
         InstWith("CIM_X", "1", << >>)},
     ModifiedInstance |->
        {InstWith("CIM_A", "1", "p" :> StrProp("p", "x")),
         InstWith("cim_a", "1", "p" :> StrProp("P", "x")),
         InstWith("CIM_A", "1", "p" :> StrProp("p", "d")),
         [InstWith("CIM_A", "1", "p" :> StrProp("p", "x")) EXCEPT
             !.properties["k"] = StrProp("k", "2")],
         InstWith("CIM_A", "3", << >>),
         InstWith("CIM_A", "1", << >>)},
     PropertyList |->
        {None, Some({}), Some({"p"}), Some({"P"}), Some({"k"})},
     InstanceName |-> {InstWith("CIM_A", "1", << >>).path},
     QualifierDeclaration |->
        {KeyDecl, [name |-> "key", type |-> "string"],
         [name |-> "Q", type |-> "boolean"]}]

InitInst ==
    /\ \E db \in {CreateClass(d, "root", CIM_A_Class).db : d \in WithKeyDecl} :
          /\ namespaces = db.namespaces
          /\ class_store = db.class_store
          /\ instance_store = db.instance_store
          /\ qualifier_store = db.qualifier_store
    /\ enumeration_contexts = << >>
    /\ uuid_count = 0
    /\ disable_pull_operations = FALSE
    /\ last = NoCall
    /\ sessions = << >>
    /\ threads = << >>

NextInst ==
    \/ \E i \in InstInputs.NewInstance : CreateInstanceCall("root", i)
    \/ \E m \in InstInputs.ModifiedInstance, pl \in InstInputs.PropertyList :
          ModifyInstanceCall("root", m, pl)
    \/ \E m \in InstInputs.NewInstance : ModifyInstanceCall("root", m, Some({}))
    \/ \E n \in InstInputs.InstanceName : DeleteInstanceCall("root", n)
    \/ \E q \in InstInputs.QualifierDeclaration : SetQualifierCall("root", q)

SpecInst == InitInst /\ [][NextInst]_vars

-----------------------------------------------------------------------------
(* Properties of the instance operations, checked under SpecInst *)

\* C14 (invariant I5, path consistency): every stored instance is stored
\* under a path whose classname equals the classname of the instance in any
\* casing and whose keybindings are the Key-qualified properties of its
\* class with the values the instance has now, and no two instances of a
\* namespace have the same path.
C14_PathConsistency ==
    \A ns \in namespaces :
       LET is == instance_store[ns]
           cs == class_store[ns]
       IN /\ \A x \in Range(is) :
                /\ Lower(x.path.classname) = Lower(x.classname)
                /\ ClassExists(cs, x.classname)
                /\ LET keys == KeyProps(ClassGet(cs, x.classname)) IN
                   /\ DOMAIN x.path.keybindings = keys
                   /\ \A k \in keys :
                         /\ k \in DOMAIN x.properties
                         /\ x.properties[k].value
                               = Some(x.path.keybindings[k].value)
          /\ \A i, j \in 1..Len(is) :
                i # j => PathKey(is[i].path) # PathKey(is[j].path)

\* ModifyInstance changed property p of the instance with key 1, which is
\* still stored under the path with key 1
C14_Witness ==
    /\ last.op = "ModifyInstance"
    /\ last.status = "OK"
    /\ \E x \in Range(instance_store["root"]) :
          /\ x.path.keybindings["k"].value = "1"
          /\ x.properties["k"].value = Some("1")
          /\ x.properties["p"].value = Some("x")

\* the instance store holds an instance of the class with these key values
PathTaken(is, target_class, properties) ==
    \E x \in Range(is) :
       /\ Lower(x.classname) = Lower(target_class.classname)
       /\ \A k \in KeyProps(target_class) :
             x.properties[k].value = properties[k].value

\* C15 (CreateInstance rejects invalid input): creation class absent ->
\* INVALID_CLASS; a Key-qualified property of the class missing from the
\* instance -> INVALID_PARAMETER; a property the class does not declare, or
\* whose type or array-ness differs from the declaration ->
\* INVALID_PARAMETER; the path of the instance already stored ->
\* ALREADY_EXISTS; in each case nothing is stored and the stored instances
\* are unchanged.
C15_CreateInstanceRejects ==
    [][\A i \in InstInputs.NewInstance :
          CreateInstanceCall("root", i) =>
             LET cs == class_store["root"] IN
             IF ~ClassExists(cs, i.classname)
             THEN /\ last'.status = "CIM_ERR_INVALID_CLASS"
                  /\ UNCHANGED repo_vars
             ELSE
             LET cls == ClassGet(cs, i.classname)
                 key_missing == \E k \in KeyProps(cls) :
                                    k \notin DOMAIN i.properties
                 mismatch == \E k \in DOMAIN i.properties :
                                \/ k \notin DOMAIN cls.properties
                                \/ i.properties[k].type
                                      # cls.properties[k].type
                                \/ i.properties[k].is_array
                                      # cls.properties[k].is_array
             IN /\ (key_missing \/ mismatch) =>
                      /\ last'.status = "CIM_ERR_INVALID_PARAMETER"
                      /\ UNCHANGED repo_vars
                /\ (/\ ~key_missing
                    /\ ~mismatch
                    /\ PathTaken(instance_store["root"], cls, i.properties)) =>
                      /\ last'.status = "CIM_ERR_ALREADY_EXISTS"
                      /\ UNCHANGED repo_vars
       ]_vars

\* CreateInstance was refused with ALREADY_EXISTS and the instance stored
\* before is still there
C15_Witness ==
    /\ last.op = "CreateInstance"
    /\ last.status = "CIM_ERR_ALREADY_EXISTS"
    /\ Len(instance_store["root"]) = 1
    /\ instance_store["root"][1].properties["p"].value = Some("d")

\* C16 (round trip): after CreateInstance accepted the instance I and
\* returned the path p, GetInstance on p succeeds and yields an instance
\* whose properties are those of the class, named as the class names them,
\* each with the value I supplied or, when I did not supply it, the default
\* of the class.
C16_RoundTrip ==
    [][\A i \in InstInputs.NewInstance :
          (CreateInstanceCall("root", i) /\ last'.status = "OK") =>
             LET cls == ClassGet(class_store["root"], i.classname)
                 rtn_path == [Val(last'.rtn) EXCEPT !.namespace = Some(@)]
                 got == GetInstance(Db', "root", rtn_path,
                                    None, None, None, None)
             IN /\ got.status = "OK"
                /\ DOMAIN Val(got.rtn).properties = DOMAIN cls.properties
                /\ \A k \in DOMAIN cls.properties :
                      LET pr == Val(got.rtn).properties[k] IN
                      /\ pr.name = cls.properties[k].name
                      /\ pr.type = cls.properties[k].type
                      /\ pr.value = IF k \in DOMAIN i.properties
                                    THEN i.properties[k].value
                                    ELSE cls.properties[k].value
       ]_vars

\* CreateInstance stored an instance given as "cim_a" with the property "P":
\* it is stored with the property named p, as the class names it
C16_Witness ==
    /\ last.op = "CreateInstance"
    /\ last.status = "OK"
    /\ \E x \in Range(instance_store["root"]) :
          /\ x.path = Val(last.rtn)
          /\ x.classname = "cim_a"
          /\ x.properties["p"].name = "p"
          /\ x.properties["p"].value = Some("x")

\* C17 (SetQualifier is create-or-replace and idempotent): SetQualifier with
\* the declaration q succeeds whether or not a declaration of that name
\* exists, afterwards GetQualifier of the name returns q, and a second
\* SetQualifier with q leaves every store as the first one left it.
C17_SetQualifierIdempotent ==
    [][\A q \in InstInputs.QualifierDeclaration :
          SetQualifierCall("root", q) =>
             /\ last'.status = "OK"
             /\ GetQualifier(Db', "root", q.name)
                   = [status |-> "OK", rtn |-> Some(q)]
             /\ SetQualifier(Db', "root", q) = [status |-> "OK", db |-> Db']
             /\ UNCHANGED <<namespaces, class_store, instance_store>>
       ]_vars

\* SetQualifier replaced the declaration Key by the declaration key of
\* another type
C17_Witness ==
    /\ last.op = "SetQualifier"
    /\ last.status = "OK"
    /\ \E i \in 1..Len(qualifier_store["root"]) :
          qualifier_store["root"][i] = [name |-> "key", type |-> "string"]
    /\ \A i \in 1..Len(qualifier_store["root"]) :
          qualifier_store["root"][i] # KeyDecl

\* the two requests differ only in the casing of the class name, of the
\* property names of the modified instance and of the names in the property
\* list
SameButCasing(m1, pl1, m2, pl2) ==
    /\ Lower(m1.classname) = Lower(m2.classname)
    /\ PathKey(m1.path) = PathKey(m2.path)
    /\ DOMAIN m1.properties = DOMAIN m2.properties
    /\ \A k \in DOMAIN m1.properties :
          [m1.properties[k] EXCEPT !.name = Lower(@)]
             = [m2.properties[k] EXCEPT !.name = Lower(@)]
    /\ IsNone(pl1) = IsNone(pl2)
    /\ ~IsNone(pl1) =>
          {Lower(n) : n \in Val(pl1)} = {Lower(n) : n \in Val(pl2)}

\* C18 (ModifyInstance treats property names case-insensitively): a request
\* that differs from another one only in the casing of a name in
\* PropertyList or of a property name of ModifiedInstance has the same
\* outcome and leaves the same stored instance.
C18_ModifyCaseInsensitive ==
    [][\A m1 \in InstInputs.ModifiedInstance, pl1 \in InstInputs.PropertyList :
          ModifyInstanceCall("root", m1, pl1) =>
             \A m2 \in InstInputs.ModifiedInstance,
                pl2 \in InstInputs.PropertyList :
                SameButCasing(m1, pl1, m2, pl2) =>
                   ModifyInstance(Db, "root", m2, pl2)
                      = [status |-> last'.status, db |-> Db']
       ]_vars

\* what a ModifyInstance request finds: the class and the stored instance
\* exist, and the modified instance carries a key property of the class with
\* a value that differs from the stored one
KeyDiffers(m) ==
    LET path == WithNamespace(m.path, "root")
        orig == InstGet(instance_store["root"], path)
    IN \E k \in KeyProps(ClassGet(class_store["root"], m.classname)) :
          /\ k \in DOMAIN m.properties
          /\ m.properties[k].value # orig.properties[k].value

\* the request names an instance that is stored and a class that exists
ModifyFinds(m) ==
    /\ ClassExists(class_store["root"], m.classname)
    /\ InstExists(instance_store["root"], WithNamespace(m.path, "root"))

\* C19 as stated (ModifyInstance never changes a key property): when the
\* modified instance carries a key property whose value differs from the
\* stored instance the request fails INVALID_PARAMETER and the stored
\* instance is unchanged, whatever PropertyList is; when every key property
\* it carries has the stored value the request is accepted.
C19_KeyNeverChanged ==
    [][\A m \in InstInputs.ModifiedInstance, pl \in InstInputs.PropertyList :
          (ModifyFinds(m) /\ ModifyInstanceCall("root", m, pl)) =>
             IF KeyDiffers(m)
             THEN /\ last'.status = "CIM_ERR_INVALID_PARAMETER"
                  /\ UNCHANGED repo_vars
             ELSE last'.status = "OK"
       ]_vars

\* C19 (ModifyInstance never changes a key property), for a PropertyList
\* that is absent or not empty: a key property with a value that differs
\* from the stored one makes the request fail INVALID_PARAMETER and leaves
\* the stored instance unchanged, whether or not PropertyList names it, and a
\* key property carried with the stored value is accepted.  With an empty
\* PropertyList the request returns successfully and changes nothing.
C19_KeyNeverChangedUnlessNoOp ==
    [][\A m \in InstInputs.ModifiedInstance, pl \in InstInputs.PropertyList :
          (ModifyFinds(m) /\ ModifyInstanceCall("root", m, pl)) =>
             IF pl = Some({})
             THEN last'.status = "OK" /\ UNCHANGED repo_vars
             ELSE IF KeyDiffers(m)
             THEN /\ last'.status = "CIM_ERR_INVALID_PARAMETER"
                  /\ UNCHANGED repo_vars
             ELSE last'.status = "OK"
       ]_vars

\* ModifyInstance was refused with INVALID_PARAMETER on the stored instance
\* with key 1, whose key and property p are as they were created
C19_Witness ==
    /\ last.op = "ModifyInstance"
    /\ last.status = "CIM_ERR_INVALID_PARAMETER"
    /\ Len(instance_store["root"]) = 1
    /\ instance_store["root"][1].properties["k"].value = Some("1")
    /\ instance_store["root"][1].properties["p"].value = Some("d")

-----------------------------------------------------------------------------
(* Properties of the Open, Pull and Close requests, checked under SpecPull *)

C25_PullDisabled ==
    [][(/\ disable_pull_operations
        /\ \/ \E op \in OpenOps, a \in OpenInputs \cup QueryInputs :
                 OpenCall(op, a)
           \/ \E op \in PullOps, c \in ContextInputs, n \in PullCounts :
                 PullCall(op, c, n)
           \/ \E c \in ContextInputs : CloseEnumerationCall(c))
       => /\ last'.status = "CIM_ERR_NOT_SUPPORTED"
          /\ UNCHANGED <<repo_vars, enumeration_contexts, uuid_count>>
      ]_vars

\* CloseEnumeration on a context of the table was refused because pull
\* operations are disabled
C25_Witness ==
    /\ disable_pull_operations
    /\ last.op = "CloseEnumeration"
    /\ last.status = "CIM_ERR_NOT_SUPPORTED"
    /\ last.ctx \in DOMAIN enumeration_contexts

Min(a, b) == IF a < b THEN a ELSE b
Max(a, b) == IF a > b THEN a ELSE b

-----------------------------------------------------------------------------
(* cim_http.parse_url.  A URL is the sequence of its characters. *)

parse_url(url) ==
    LET \* re.match("https", url), re.search("^https?://", url)
        StartsWith(s, lit) ==
            Len(s) >= Len(lit) /\ SubSeq(s, 1, Len(lit)) = lit
        https == <<"h", "t", "t", "p", "s">>
        m == IF StartsWith(url, <<"h", "t", "t", "p", ":", "/", "/">>) THEN 7
             ELSE IF StartsWith(url, https \o <<":", "/", "/">>) THEN 8
             ELSE 0
        ssl == StartsWith(url, https)
        host == IF m # 0 THEN SubSeq(url, m + 1, Len(url)) ELSE url
        \* string.split(host, ":"): the positions of ":" in host, then the
        \* end of host
        cuts == {i \in 1..Len(host) : host[i] = ":"} \cup {Len(host) + 1}
        c1 == CHOOSE i \in cuts : \A j \in cuts : i <= j
        c2 == CHOOSE i \in cuts \ {c1} : \A j \in cuts \ {c1} : i <= j
        s0 == SubSeq(host, 1, c1 - 1)
        s1 == SubSeq(host, c1 + 1, c2 - 1)
        \* int(s1): ValueError unless s1 is a non-empty string of digits
        digit == [c \in {"0", "1", "2", "3", "4", "5", "6", "7", "8", "9"} |->
                    CASE c = "0" -> 0 [] c = "1" -> 1 [] c = "2" -> 2
                      [] c = "3" -> 3 [] c = "4" -> 4 [] c = "5" -> 5
                      [] c = "6" -> 6 [] c = "7" -> 7 [] c = "8" -> 8
                      [] c = "9" -> 9]
        RECURSIVE int(_)
        int(s) == IF s = <<>> THEN 0
                  ELSE 10 * int(SubSeq(s, 1, Len(s) - 1)) + digit[s[Len(s)]]
    IN IF Cardinality(cuts) = 1
       THEN [status |-> "OK",
             rtn |-> <<host, IF ssl THEN 5989 ELSE 5988, ssl>>]
       ELSE IF s1 = <<>> \/ \E i \in 1..Len(s1) : s1[i] \notin DOMAIN digit
       THEN [status |-> "ValueError", rtn |-> <<>>]
       ELSE [status |-> "OK", rtn |-> <<s0, int(s1), ssl>>]

\* the URLs given to parse_url: an optional scheme, a host name and an
\* optional port number, written as a URL
UrlInputs ==
    LET Scheme == [none |-> <<>>,
                   http |-> <<"h", "t", "t", "p", ":", "/", "/">>,
                   https |-> <<"h", "t", "t", "p", "s", ":", "/", "/">>]
        Hosts == {<<"h">>, <<"a", "b">>, <<"h", "t", "t", "p">>,
                  <<"h", "t", "t", "p", "s">>,
                  <<"h", "t", "t", "p", "s", "r", "v">>,
                  <<"1", "0", ".", "0", ".", "0", ".", "1">>}
        Str == (1 :> <<"1">> @@ 80 :> <<"8", "0">>
                @@ 5988 :> <<"5", "9", "8", "8">>
                @@ 5989 :> <<"5", "9", "8", "9">>
                @@ 65535 :> <<"6", "5", "5", "3", "5">>)
    IN {[scheme |-> sc, host |-> h, port |-> p,
         url |-> Scheme[sc] \o h
                 \o (IF IsNone(p) THEN <<>> ELSE <<":">> \o Str[Val(p)])] :
           sc \in DOMAIN Scheme, h \in Hosts,
           p \in {None} \cup {Some(n) : n \in DOMAIN Str}}

\* one call of parse_url: last.ctx is the URL given, last.rtn the tuple
\* returned
SpecUrl ==
    /\ namespaces = EmptyDb.namespaces
    /\ class_store = EmptyDb.class_store
    /\ instance_store = EmptyDb.instance_store
    /\ qualifier_store = EmptyDb.qualifier_store
    /\ enumeration_contexts = << >>
    /\ uuid_count = 0
    /\ disable_pull_operations = FALSE
    /\ sessions = << >>
    /\ threads = << >>
    /\ \E u \in UrlInputs : last = [NoCall EXCEPT !.ctx = u]
    /\ [][/\ last.op = ""
          /\ \E r \in {parse_url(last.ctx.url)} :
                last' = [last EXCEPT !.op = "parse_url",
                                     !.status = r.status, !.rtn = r.rtn]
          /\ UNCHANGED <<threads, repo_vars, enumeration_contexts, uuid_count,
                         disable_pull_operations, sessions>>]_vars

-----------------------------------------------------------------------------
(* Properties of parse_url, checked under SpecUrl *)

\* C29 (parse_url): for a URL without a port the returned port is 5988; ssl
\* is False unless the URL has the scheme https; for a URL with a port the
\* returned port is that number and the returned host is the URL without the
\* scheme and without the port.  The code breaks the first two parts for a
\* host name that begins with "https".
C29_ParseUrl ==
    last.op = "parse_url" =>
        LET u == last.ctx IN
        /\ last.status = "OK"
        /\ IsNone(u.port) => last.rtn[2] = 5988
        /\ last.rtn[3] => u.scheme = "https"
        /\ ~IsNone(u.port) => last.rtn[2] = Val(u.port) /\ last.rtn[1] = u.host

-----------------------------------------------------------------------------
(* MainProvider: the reference and associator requests.  The lists the      *)
(* code returns are built from sets; they are modelled as sets.  Reference  *)
(* properties of stored instances have values: they are key properties of   *)
(* the association classes of the inputs.                                   *)

\* self.host, the host of the connection the provider answers for
conn_host == "fakehost"

\* _subclasses_lc: the class and its subclasses in lower case, nothing for
\* a class name that is None or empty
_subclasses_lc(classname, cs) ==
    IF IsNone(classname) \/ Val(classname) = "" THEN {}
    ELSE {Lower(cln) :
            cln \in {Val(classname)}
                \cup Range(_get_subclass_names(Val(classname), cs, TRUE))}

\* _get_reference_classnames: the association classes with a reference
\* property that targets the class or one of its superclasses
_get_reference_classnames(db, namespace, classname, result_class, role) ==
    LET cs == db.class_store[namespace]
        given(v) == ~IsNone(v) /\ Val(v) # ""
        _ref_prop_matches(prop, target_classnames, ref_classname, resultclass_names) ==
            /\ Lower(prop.reference_class) \in target_classnames
            /\ resultclass_names = {} \/ ref_classname \in resultclass_names
            /\ ~given(role) \/ Lower(prop.name) = Lower(Val(role))
    IN
    IF ~ClassExists(cs, classname)
    THEN [status |-> "CIM_ERR_INVALID_PARAMETER", rtn |-> None]
    ELSE IF given(result_class) /\ ~ClassExists(cs, Val(result_class))
    THEN [status |-> "CIM_ERR_INVALID_PARAMETER", rtn |-> None]
    ELSE
    LET Names(result_classes, target_classlist) ==
          {assoc_cl.classname :
             assoc_cl \in
               {cl \in Range(cs) :
                  /\ "association" \in cl.qualifiers
                  /\ \E k \in DOMAIN cl.properties :
                        /\ cl.properties[k].type = "reference"
                        /\ _ref_prop_matches(cl.properties[k],
                                             target_classlist,
                                             Lower(cl.classname),
                                             result_classes)}}
    IN [status |-> "OK",
        rtn |-> OneOf({Names(rc, {Lower(cn) :
                          cn \in Range(_get_superclass_names(classname, cs))
                                    \cup {classname}}) :
                       rc \in {_subclasses_lc(result_class, cs)}})]

\* _get_reference_instnames: the paths of the stored instances with a
\* reference property whose value is the instance name
_get_reference_instnames(db, instname, namespace, result_class, role) ==
    LET cs == db.class_store[namespace]
        is == db.instance_store[namespace]
        given(v) == ~IsNone(v) /\ Val(v) # ""
    IN
    IF ~ClassExists(cs, instname.classname)
    THEN [status |-> "CIM_ERR_INVALID_PARAMETER", rtn |-> None]
    ELSE IF given(result_class) /\ ~ClassExists(cs, Val(result_class))
    THEN [status |-> "CIM_ERR_INVALID_PARAMETER", rtn |-> None]
    ELSE
    LET Paths(resultclasses, target) ==
          {inst.path :
             inst \in
               {x \in Range(is) :
                  \E k \in DOMAIN x.properties :
                     /\ x.properties[k].type = "reference"
                     /\ PathKey(Val(x.properties[k].value)) = target
                     /\ ~given(result_class)
                           \/ Lower(x.classname) \in resultclasses
                     /\ ~given(role)
                           \/ Lower(x.properties[k].name) = Lower(Val(role))}}
    IN [status |-> "OK",
        rtn |-> OneOf({Paths(rc, PathKey([instname EXCEPT
                                             !.namespace = namespace])) :
                       rc \in {_subclasses_lc(result_class, cs)}})]

\* _get_associated_classnames: the classes that the reference properties of
\* the reference classes name
_get_associated_classnames(db, namespace, classname, assoc_class, result_class, result_role, role) ==
    LET cs == db.class_store[namespace]
        given(v) == ~IsNone(v) /\ Val(v) # ""
        _assoc_prop_matches(prop, ref_classname, assoc_classes, result_classes) ==
            /\ assoc_classes = {} \/ Lower(ref_classname) \in assoc_classes
            /\ result_classes = {}
                  \/ Lower(prop.reference_class) \in result_classes
            /\ ~given(result_role)
                  \/ Lower(prop.name) = Lower(Val(result_role))
        single_use(cl) ==
            {cl.properties[k].reference_class :
               k \in {x \in DOMAIN cl.properties :
                  /\ cl.properties[x].type = "reference"
                  /\ Cardinality({y \in DOMAIN cl.properties :
                        /\ cl.properties[y].type = "reference"
                        /\ cl.properties[y].reference_class
                              = cl.properties[x].reference_class}) = 1}}
    IN
    IF given(assoc_class) /\ ~ClassExists(cs, Val(assoc_class))
    THEN [status |-> "CIM_ERR_INVALID_PARAMETER", rtn |-> None]
    ELSE IF given(result_class) /\ ~ClassExists(cs, Val(result_class))
    THEN [status |-> "CIM_ERR_INVALID_PARAMETER", rtn |-> None]
    ELSE
    LET Names(ref_clns, assoc_classes, result_classes) ==
          IF ref_clns.status # "OK" THEN ref_clns
          ELSE [status |-> "OK",
                rtn |->
                  UNION {{cl.properties[k].reference_class :
                            k \in {x \in DOMAIN cl.properties :
                               /\ cl.properties[x].type = "reference"
                               /\ _assoc_prop_matches(cl.properties[x],
                                     cl.classname, assoc_classes,
                                     result_classes)
                               /\ ~(/\ cl.properties[x].reference_class
                                          = classname
                                    /\ cl.properties[x].reference_class
                                          \in single_use(cl))}} :
                         cl \in {ClassGet(cs, cln) : cln \in ref_clns.rtn}}]
    IN OneOf({Names(r, ac, rc) :
                r \in {_get_reference_classnames(db, namespace, classname,
                                                 assoc_class, role)},
                ac \in {_subclasses_lc(assoc_class, cs)},
                rc \in {_subclasses_lc(result_class, cs)}})

\* A variant of _get_associated_instancenames that takes the values of
\* every role.
_get_associated_instancenamesAnyRole(db, namespace, inst_name, assoc_class, result_class, result_role, role) ==
    LET cs == db.class_store[namespace]
        is == db.instance_store[namespace]
        given(v) == ~IsNone(v) /\ Val(v) # ""
    IN
    IF given(assoc_class) /\ ~ClassExists(cs, Val(assoc_class))
    THEN [status |-> "CIM_ERR_INVALID_PARAMETER", rtn |-> None]
    ELSE IF given(result_class) /\ ~ClassExists(cs, Val(result_class))
    THEN [status |-> "CIM_ERR_INVALID_PARAMETER", rtn |-> None]
    ELSE
    LET Values(ref_paths, result_classes, target) ==
          IF ref_paths.status # "OK" THEN ref_paths
          ELSE [status |-> "OK",
                rtn |->
                  UNION {{Val(inst.properties[k].value) :
                            k \in {x \in DOMAIN inst.properties :
                               /\ inst.properties[x].type = "reference"
                               /\ PathKey(Val(inst.properties[x].value))
                                     # target
                               /\ ~given(result_class)
                                     \/ Lower(Val(inst.properties[x].value)
                                                 .classname)
                                           \in result_classes
                               /\ ~given(result_role)
                                     \/ inst.properties[x].name
                                           \in {"left", "right"}}} :
                         inst \in {InstGet(is, ref_path) :
                                     ref_path \in ref_paths.rtn}}]
    IN OneOf({Values(r, rc, PathKey([inst_name EXCEPT
                                        !.namespace = namespace])) :
                r \in {_get_reference_instnames(db, inst_name, namespace,
                                                assoc_class, role)},
                rc \in {_subclasses_lc(result_class, cs)}})

\* _get_associated_instancenames: the values of the other reference
\* properties of the instances that reference the instance name
_get_associated_instancenames(db, namespace, inst_name, assoc_class, result_class, result_role, role) ==
    LET cs == db.class_store[namespace]
        is == db.instance_store[namespace]
        given(v) == ~IsNone(v) /\ Val(v) # ""
    IN
    IF given(assoc_class) /\ ~ClassExists(cs, Val(assoc_class))
    THEN [status |-> "CIM_ERR_INVALID_PARAMETER", rtn |-> None]
    ELSE IF given(result_class) /\ ~ClassExists(cs, Val(result_class))
    THEN [status |-> "CIM_ERR_INVALID_PARAMETER", rtn |-> None]
    ELSE
    LET Values(ref_paths, result_classes, target) ==
          IF ref_paths.status # "OK" THEN ref_paths
          ELSE [status |-> "OK",
                rtn |->
                  UNION {{Val(inst.properties[k].value) :
                            k \in {x \in DOMAIN inst.properties :
                               /\ inst.properties[x].type = "reference"
                               /\ PathKey(Val(inst.properties[x].value))
                                     # target
                               /\ ~given(result_class)
                                     \/ Lower(Val(inst.properties[x].value)
                                                 .classname)
                                           \in result_classes
                               /\ ~given(result_role)
                                     \/ Lower(inst.properties[x].name)
                                           = Lower(Val(result_role))}} :
                         inst \in {InstGet(is, ref_path) :
                                     ref_path \in ref_paths.rtn}}]
    IN OneOf({Values(r, rc, PathKey([inst_name EXCEPT
                                        !.namespace = namespace])) :
                r \in {_get_reference_instnames(db, inst_name, namespace,
                                                assoc_class, role)},
                rc \in {_subclasses_lc(result_class, cs)}})

\* _return_assoc_class_tuples: a pair of class path and shaped class for
\* every class name
_return_assoc_class_tuples(db, rtn_classnames, namespace, iq, ico, pl) ==
    {<<[classname |-> cn, namespace |-> namespace, host |-> Some(conn_host)],
       _get_class(db.class_store[namespace], cn, None, iq, ico, pl)>> :
     cn \in rtn_classnames}

\* ReferenceNames: the paths of the referencing instances for an instance
\* name, the paths of the referencing classes for a class name
ReferenceNames(db, namespace, ObjectName, ResultClass, Role) ==
    IF ~validate_namespace(db, namespace)
    THEN [status |-> "CIM_ERR_INVALID_NAMESPACE", rtn |-> None]
    ELSE IF "keybindings" \in DOMAIN ObjectName
    THEN LET Result(ref_paths) ==
               IF ref_paths.status # "OK" THEN ref_paths
               ELSE [status |-> "OK",
                     rtn |-> {[iname EXCEPT !.host = IF IsNone(@)
                                                      THEN Some(conn_host)
                                                      ELSE @] :
                              iname \in ref_paths.rtn}]
         IN OneOf({Result(r) :
               r \in {_get_reference_instnames(db, ObjectName, namespace,
                                               ResultClass, Role)}})
    ELSE LET Result(ref_classnames) ==
               IF ref_classnames.status # "OK" THEN ref_classnames
               ELSE [status |-> "OK",
                     rtn |-> {[classname |-> cn, host |-> Some(conn_host),
                               namespace |-> namespace] :
                              cn \in ref_classnames.rtn}]
         IN OneOf({Result(r) :
               r \in {_get_reference_classnames(db, namespace,
                          ObjectName.classname, ResultClass, Role)}})

\* References.  The instance branch calls _get_instance(namespace, path,
\* instance_store, None, PropertyList, IncludeClassOrigin,
\* IncludeQualifiers): PropertyList arrives as local_only and no property
\* list is given.  The class branch calls _return_assoc_class_tuples(
\* rtn_classnames, namespace, PropertyList, IncludeClassOrigin,
\* IncludeQualifiers): PropertyList arrives as iq and IncludeQualifiers as
\* pl, and _filter_properties iterates a pl that is not None, which raises
\* TypeError on a boolean.
References(db, namespace, ObjectName, ResultClass, Role, IncludeQualifiers, IncludeClassOrigin, PropertyList) ==
    LET list_truth == IF IsNone(PropertyList) THEN None
                      ELSE Some(Val(PropertyList) # {})
    IN
    IF ~validate_namespace(db, namespace)
    THEN [status |-> "CIM_ERR_INVALID_NAMESPACE", rtn |-> None]
    ELSE IF "keybindings" \in DOMAIN ObjectName
    THEN LET Insts(rtn_insts) ==
               IF \E r \in rtn_insts : r.status # "OK"
               THEN [status |-> (CHOOSE r \in rtn_insts :
                                    r.status # "OK").status,
                     rtn |-> None]
               ELSE [status |-> "OK",
                     rtn |-> {[inst EXCEPT !.path.host =
                                  IF IsNone(@) THEN Some(conn_host) ELSE @] :
                              inst \in {Val(r.inst) : r \in rtn_insts}}]
             Result(ref_paths) ==
               IF ref_paths.status # "OK" THEN ref_paths
               ELSE OneOf({Insts(rs) :
                      rs \in {{_get_instance(db, namespace, path, None,
                                   list_truth, IncludeClassOrigin,
                                   IncludeQualifiers) :
                               path \in ref_paths.rtn}}})
         IN OneOf({Result(r) :
               r \in {_get_reference_instnames(db, ObjectName, namespace,
                                               ResultClass, Role)}})
    ELSE LET Result(rtn_classnames) ==
               IF rtn_classnames.status # "OK" THEN rtn_classnames
               ELSE IF rtn_classnames.rtn # {} /\ ~IsNone(IncludeQualifiers)
               THEN [status |-> "TypeError", rtn |-> None]
               ELSE [status |-> "OK",
                     rtn |-> _return_assoc_class_tuples(db,
                                 rtn_classnames.rtn, namespace, list_truth,
                                 IncludeClassOrigin, None)]
         IN OneOf({Result(r) :
               r \in {_get_reference_classnames(db, namespace,
                          ObjectName.classname, ResultClass, Role)}})

\* AssociatorNames: the paths of the associated instances for an instance
\* name, the paths of the associated classes for a class name
AssociatorNames(db, namespace, ObjectName, AssocClass, ResultClass, Role, ResultRole) ==
    IF ~validate_namespace(db, namespace)
    THEN [status |-> "CIM_ERR_INVALID_NAMESPACE", rtn |-> None]
    ELSE IF "keybindings" \in DOMAIN ObjectName
    THEN LET Result(rtn_paths) ==
               IF rtn_paths.status # "OK" THEN rtn_paths
               ELSE [status |-> "OK",
                     rtn |-> {[iname EXCEPT !.host = IF IsNone(@)
                                                      THEN Some(conn_host)
                                                      ELSE @] :
                              iname \in rtn_paths.rtn}]
         IN OneOf({Result(r) :
               r \in {_get_associated_instancenames(db, namespace,
                          ObjectName, AssocClass, ResultClass, ResultRole,
                          Role)}})
    ELSE LET Result(rtn_classnames) ==
               IF rtn_classnames.status # "OK" THEN rtn_classnames
               ELSE [status |-> "OK",
                     rtn |-> {[classname |-> cln, host |-> Some(conn_host),
                               namespace |-> namespace] :
                              cln \in rtn_classnames.rtn}]
         IN OneOf({Result(r) :
               r \in {_get_associated_classnames(db, namespace,
                          ObjectName.classname, AssocClass, ResultClass,
                          ResultRole, Role)}})

\* Associators.  The instance branch returns the instances as _get_instance
\* hands them out, with PropertyList in the place of local_only as in
\* References; the class branch passes PropertyList and IncludeQualifiers to
\* _return_assoc_class_tuples as References does.
Associators(db, namespace, ObjectName, AssocClass, ResultClass, Role, ResultRole, IncludeQualifiers, IncludeClassOrigin, PropertyList) ==
    LET list_truth == IF IsNone(PropertyList) THEN None
                      ELSE Some(Val(PropertyList) # {})
    IN
    IF ~validate_namespace(db, namespace)
    THEN [status |-> "CIM_ERR_INVALID_NAMESPACE", rtn |-> None]
    ELSE IF "keybindings" \in DOMAIN ObjectName
    THEN LET Insts(results) ==
               IF \E r \in results : r.status # "OK"
               THEN [status |-> (CHOOSE r \in results :
                                    r.status # "OK").status,
                     rtn |-> None]
               ELSE [status |-> "OK",
                     rtn |-> {Val(r.inst) : r \in results}]
             Result(assoc_names) ==
               IF assoc_names.status # "OK" THEN assoc_names
               ELSE OneOf({Insts(rs) :
                      rs \in {{_get_instance(db, namespace, obj_name, None,
                                   list_truth, IncludeClassOrigin,
                                   IncludeQualifiers) :
                               obj_name \in assoc_names.rtn}}})
         IN OneOf({Result(r) :
               r \in {_get_associated_instancenames(db, namespace,
                          ObjectName, AssocClass, ResultClass, ResultRole,
                          Role)}})
    ELSE LET Result(rtn_classnames) ==
               IF rtn_classnames.status # "OK" THEN rtn_classnames
               ELSE IF rtn_classnames.rtn # {} /\ ~IsNone(IncludeQualifiers)
               THEN [status |-> "TypeError", rtn |-> None]
               ELSE [status |-> "OK",
                     rtn |-> _return_assoc_class_tuples(db,
                                 rtn_classnames.rtn, namespace, list_truth,
                                 IncludeClassOrigin, None)]
         IN OneOf({Result(r) :
               r \in {_get_associated_classnames(db, namespace,
                          ObjectName.classname, AssocClass, ResultClass,
                          ResultRole, Role)}})

-----------------------------------------------------------------------------
(* Reference and associator requests on a repository with associations *)

\* The parameters of the requests.  CIM_A and CIM_B stand alone, CIM_C
\* extends CIM_B; the association class CIM_AtoB has the reference
\* properties left (to CIM_A) and right (to CIM_B), CIM_AtoC extends it.
\* The instances a1, b1, c1 and the links ab1 {left: a1, right: b1},
\* ac1 {left: a1, right: c1} and aa1 {left: a1, right: a1}.  CIM_X is never
\* created.  Names and Refs: the parameters that select the result of the
\* associator and of the reference requests (class filters and roles are
\* varied one kind at a time); Shaped, Shape: the parameters of the
\* requests that return objects (AssocClass is the ResultClass of
\* References).
AssocInputs ==
    LET Ref(name, reference_class, value, quals) ==
          [name |-> name, type |-> "reference", is_array |-> FALSE,
           value |-> value, qualifiers |-> quals, class_origin |-> None,
           propagated |-> None, reference_class |-> reference_class]
        Keyed(classname, superclass) ==
          [classname |-> classname, superclass |-> superclass,
           qualifiers |-> {},
           properties |->
              IF IsNone(superclass)
              THEN "k" :> Prop("k", "string", None, {"key"}, None, None)
              ELSE << >>]
        Stored(classname, k) ==
          WithNamespace(InstWith(classname, k, << >>).path, "root")
        Link(classname, l, r) ==
          [classname |-> classname,
           properties |->
              ("left" :> Ref("left", "CIM_A", Some(l), {})
               @@ "right" :> Ref("right", "CIM_B", Some(r), {})),
           path |-> [classname |-> classname, namespace |-> None,
                     host |-> None,
                     keybindings |->
                        ("left" :> [name |-> "left", value |-> l]
                         @@ "right" :> [name |-> "right", value |-> r])]]
        ObjectName ==
          {InstWith("CIM_A", "1", << >>).path,
           InstWith("cim_b", "1", << >>).path,
           InstWith("CIM_X", "1", << >>).path,
           [classname |-> "CIM_A"], [classname |-> "cim_b"],
           [classname |-> "CIM_X"]}
        AssocClass == {None, Some("CIM_AtoB"), Some("cim_atoc"), Some("CIM_X")}
        Role == {None, Some("left"), Some("Right")}
    IN
    [QualifierDeclaration |->
        <<KeyDecl, [name |-> "Association", type |-> "boolean"]>>,
     NewClass |->
        <<CIM_A_Class, Keyed("CIM_B", None), Keyed("CIM_C", Some("CIM_B")),
          [classname |-> "CIM_AtoB", superclass |-> None,
           qualifiers |-> {"association"},
           properties |->
              ("left" :> Ref("left", "CIM_A", None, {"key"})
               @@ "right" :> Ref("right", "CIM_B", None, {"key"}))],
          [classname |-> "CIM_AtoC", superclass |-> Some("CIM_AtoB"),
           qualifiers |-> {"association"}, properties |-> << >>]>>,
     NewInstance |->
        <<InstWith("CIM_A", "1", << >>), InstWith("CIM_B", "1", << >>),
          InstWith("CIM_C", "1", << >>),
          Link("CIM_AtoB", Stored("CIM_A", "1"), Stored("CIM_B", "1")),
          Link("CIM_AtoC", Stored("CIM_A", "1"), Stored("CIM_C", "1")),
          Link("CIM_AtoB", Stored("CIM_A", "1"), Stored("CIM_A", "1"))>>,
     InstanceName |->
        {InstWith("CIM_B", "1", << >>).path},
     Names |->
        [namespace : {"root"}, ObjectName : ObjectName,
         AssocClass : AssocClass,
         ResultClass : {None, Some("CIM_A"), Some("CIM_B"), Some("cim_c")},
         Role : {None}, ResultRole : {None}]
        \cup [namespace : {"root"}, ObjectName : ObjectName,
              AssocClass : {None}, ResultClass : {None}, Role : Role,
              ResultRole : {None, Some("Left"), Some("right")}]
        \cup [namespace : {"ns1"}, ObjectName : ObjectName,
              AssocClass : {None}, ResultClass : {None}, Role : {None},
              ResultRole : {None}],
     Refs |->
        [namespace : {"root"}, ObjectName : ObjectName,
         ResultClass : AssocClass, Role : Role]
        \cup [namespace : {"ns1"}, ObjectName : ObjectName,
              ResultClass : {None}, Role : {None}],
     Shaped |->
        [namespace : {"root"},
         ObjectName : {InstWith("CIM_A", "1", << >>).path,
                       InstWith("cim_b", "1", << >>).path,
                       [classname |-> "CIM_A"], [classname |-> "CIM_X"]},
         AssocClass : {None, Some("cim_atoc")}],
     Shape |->
        [IncludeQualifiers : {None, Some(TRUE), Some(FALSE)},
         IncludeClassOrigin : {None, Some(TRUE)},
         PropertyList : {None, Some({}), Some({"k"})}],
     ClassName |-> {"CIM_A", "cim_b", "CIM_X"},
     QualifierName |-> {"key", "CIM_X"},
     Open |-> OpenArgs("root", "CIM_B", Some(1), NoFilter)]

\* a reference or associator request with the parameters a
AssocCall(op, a, result) ==
    \E r \in {result} :
       /\ last' = [op |-> op, status |-> r.status, rtn |-> r.rtn, eos |-> "",
                   context_id |-> "", ctx |-> a]
       /\ sessions' = Forget(sessions)
       /\ SetDb(AfterRead(Db, a.namespace, op,
                          "keybindings" \in DOMAIN a.ObjectName, r))
       /\ UNCHANGED <<threads, enumeration_contexts, uuid_count,
                      disable_pull_operations>>

\* The repository starts with the qualifier declarations and classes of the
\* inputs and with the first four or all of their instances, created in
\* their order by the requests that create them, and with the session that
\* OpenEnumerateInstancePaths of CIM_B with MaxObjectCount 1 leaves open on
\* the path of c1.  An instance that links reference (b1) is deleted; the
\* reference and associator requests and the other requests that read the
\* repository read it.
SpecAssoc ==
    /\ \E db \in
          {LET RECURSIVE Built(_, _, _)
               Built(q, c, i) ==
                 IF i > 0
                 THEN CreateInstance(Built(q, c, i - 1), "root",
                                     AssocInputs.NewInstance[i]).db
                 ELSE IF c > 0
                 THEN CreateClass(Built(q, c - 1, 0), "root",
                                  AssocInputs.NewClass[c]).db
                 ELSE IF q > 0
                 THEN SetQualifier(Built(q - 1, 0, 0), "root",
                                   AssocInputs.QualifierDeclaration[q]).db
                 ELSE add_namespace(EmptyDb, "root").db
           IN Built(Len(AssocInputs.QualifierDeclaration),
                    Len(AssocInputs.NewClass), n) :
            n \in {4, Len(AssocInputs.NewInstance)}} :
          /\ namespaces = db.namespaces
          /\ class_store = db.class_store
          /\ instance_store = db.instance_store
          /\ qualifier_store = db.qualifier_store
          /\ \E r \in {OpenRequest(db, << >>, 0, FALSE,
                                    "OpenEnumerateInstancePaths",
                                    AssocInputs.Open)} :
                /\ enumeration_contexts = r.ctxs
                /\ sessions =
                     (r.context_id :>
                        [all |-> OpenUnderlying(
                                    db, "OpenEnumerateInstancePaths",
                                    AssocInputs.Open).rtn,
                         pages |-> <<r.rtn>>, state |-> "open"])
    /\ uuid_count = 1
    /\ disable_pull_operations = FALSE
    /\ last = NoCall
    /\ threads = << >>
    /\ [][\/ \E n \in AssocInputs.InstanceName : DeleteInstanceCall("root", n)
          \/ \E a \in AssocInputs.Refs :
                AssocCall("ReferenceNames", a,
                    ReferenceNames(Db, a.namespace, a.ObjectName,
                                   a.ResultClass, a.Role))
          \/ \E a \in AssocInputs.Shaped, s \in AssocInputs.Shape :
                AssocCall("References", a @@ s,
                    References(Db, a.namespace, a.ObjectName, a.AssocClass,
                               None, s.IncludeQualifiers,
                               s.IncludeClassOrigin, s.PropertyList))
          \/ \E a \in AssocInputs.Names :
                AssocCall("AssociatorNames", a,
                    AssociatorNames(Db, a.namespace, a.ObjectName,
                                    a.AssocClass, a.ResultClass, a.Role,
                                    a.ResultRole))
          \/ \E a \in AssocInputs.Shaped, s \in AssocInputs.Shape :
                AssocCall("Associators", a @@ s,
                    Associators(Db, a.namespace, a.ObjectName, a.AssocClass,
                                None, None, None, s.IncludeQualifiers,
                                s.IncludeClassOrigin, s.PropertyList))
          \/ \E cln \in AssocInputs.ClassName, s \in AssocInputs.Shape :
                ReadCall("GetClass", "root",
                    GetClass(Db, "root", cln, None, s.IncludeQualifiers,
                             s.IncludeClassOrigin, s.PropertyList))
          \/ \E cln \in AssocInputs.ClassName, di \in {None, Some(TRUE)} :
                EnumerateClassesCall("root", cln, di)
          \/ \E ns \in {"root", "ns1"}, cln \in AssocInputs.ClassName,
                di \in {None, Some(TRUE)} :
                EnumerateClassNamesCall(ns, cln, di)
          \/ \E n \in {a.ObjectName : a \in AssocInputs.Refs}
                          \ [classname : STRING],
                s \in AssocInputs.Shape :
                ReadCall("GetInstance", "root",
                    GetInstance(Db, "root", n, None, s.IncludeQualifiers,
                                s.IncludeClassOrigin, s.PropertyList))
          \/ \E cln \in AssocInputs.ClassName, di \in {None, Some(FALSE)} :
                EnumerateInstancesCall("root", cln, di)
          \/ \E ns \in {"root", "ns1"}, cln \in AssocInputs.ClassName :
                EnumerateInstanceNamesCall(ns, cln)
          \/ \E ns \in {"root", "ns1"}, q \in AssocInputs.QualifierName :
                ReadCall("GetQualifier", ns, GetQualifier(Db, ns, q))
          \/ \E ns \in {"root", "ns1"} :
                ReadCall("EnumerateQualifiers", ns,
                         EnumerateQualifiers(Db, ns))]_vars

-----------------------------------------------------------------------------
(* Properties of the reference and associator requests, checked under       *)
(* SpecAssoc                                                                *)

\* C23: AssociatorNames on an instance name returns exactly the values v
\* such that a stored instance R has a reference property equal to the
\* source (R's class the AssocClass or a subclass of it when AssocClass is
\* given, the property named Role when Role is given) and another reference
\* property p whose value v is not the source (v's class the ResultClass or
\* a subclass of it when ResultClass is given, p named ResultRole when
\* ResultRole is given).  With the single link ab1 {left: a1, right: b1} the
\* result for a1 is {b1}, is empty with ResultClass = CIM_A, is {b1} with
\* Role = left and ResultRole = right, and is empty with the roles swapped.
C23_AssociatorNames ==
    (/\ last.op = "AssociatorNames"
     /\ last.status = "OK"
     /\ "keybindings" \in DOMAIN last.ctx.ObjectName)
    =>
    LET a == last.ctx
        cs == class_store[a.namespace]
        is == instance_store[a.namespace]
        source == PathKey(WithNamespace(a.ObjectName, a.namespace))
        IsRef(R, p) == R.properties[p].type = "reference"
        Named(R, p, role) ==
            IsNone(role) \/ Lower(R.properties[p].name) = Lower(Val(role))
        Of(classname, C) == IsNone(C) \/ IsOrExtends(cs, classname, Val(C))
        Source(R, s) ==
            /\ IsRef(R, s)
            /\ PathKey(Val(R.properties[s].value)) = source
            /\ Of(R.classname, a.AssocClass)
            /\ Named(R, s, a.Role)
        Result(R, p) ==
            /\ IsRef(R, p)
            /\ PathKey(Val(R.properties[p].value)) # source
            /\ Of(Val(R.properties[p].value).classname, a.ResultClass)
            /\ Named(R, p, a.ResultRole)
        expected ==
            UNION {{Val(R.properties[p].value) :
                      p \in {x \in DOMAIN R.properties :
                         /\ Result(R, x)
                         /\ \E s \in DOMAIN R.properties \ {x} :
                               Source(R, s)}} :
                   R \in Range(is)}
        Filled(v) == [v EXCEPT !.host = Some(conn_host)]
        b1 == Filled(WithNamespace(InstWith("CIM_B", "1", << >>).path, "root"))
        role(v) == IF IsNone(v) THEN "" ELSE Lower(Val(v))
        roles == <<role(a.Role), role(a.ResultRole)>>
    IN /\ last.rtn = {Filled(v) : v \in expected}
       /\ (/\ a.ObjectName = InstWith("CIM_A", "1", << >>).path
           /\ Len(is) = 4
           /\ a.AssocClass = None)
          => /\ (a.ResultClass = None /\ roles = <<"", "">>)
                   => last.rtn = {b1}
             /\ a.ResultClass = Some("CIM_A") => last.rtn = {}
             /\ roles = <<"left", "right">> => last.rtn = {b1}
             /\ roles = <<"right", "left">> => last.rtn = {}

\* the single link ab1 is stored and AssociatorNames of a1 with Role = left
\* and ResultRole = right returned b1
C23_Witness ==
    /\ last.op = "AssociatorNames"
    /\ last.status = "OK"
    /\ last.ctx.ObjectName = InstWith("CIM_A", "1", << >>).path
    /\ last.ctx.Role = Some("left")
    /\ last.ctx.ResultRole = Some("right")
    /\ Len(instance_store["root"]) = 4
    /\ Cardinality(last.rtn) = 1
    /\ \E v \in last.rtn : v.classname = "CIM_B"

\* C22: for ReferenceNames, References, AssociatorNames and Associators on
\* an instance name, every returned instance path and the path of every
\* returned instance has a host that is not null.
C22_HostFilled ==
    (/\ last.op \in {"ReferenceNames", "References", "AssociatorNames",
                     "Associators"}
     /\ last.status = "OK"
     /\ "keybindings" \in DOMAIN last.ctx.ObjectName)
    => \A x \in last.rtn :
          IF last.op \in {"References", "Associators"}
          THEN ~IsNone(x.path.host)
          ELSE ~IsNone(x.host)

\* C21: References and Associators on a class name, when the class and the
\* filter classes exist, return pairs of a class path (classname, namespace,
\* host) and the stored class shaped by the parameters of the request:
\* qualifiers kept iff IncludeQualifiers is true, class origins kept iff
\* IncludeClassOrigin is true, properties restricted to PropertyList (all
\* kept when PropertyList is null), for every combination of the three.
C21_ClassTuples ==
    (/\ last.op \in {"References", "Associators"}
     /\ "keybindings" \notin DOMAIN last.ctx.ObjectName
     /\ last.status \notin {"CIM_ERR_INVALID_NAMESPACE",
                            "CIM_ERR_INVALID_PARAMETER"})
    =>
    LET a == last.ctx
        Listed(prop) ==
            IsNone(a.PropertyList)
               \/ Lower(prop.name) \in {Lower(n) : n \in Val(a.PropertyList)}
        ShapedProp(prop) ==
            [prop EXCEPT
               !.qualifiers = IF a.IncludeQualifiers = Some(TRUE) THEN @
                              ELSE {},
               !.class_origin = IF a.IncludeClassOrigin = Some(TRUE) THEN @
                                ELSE None]
        Shaped(cls) ==
            [cls EXCEPT
               !.qualifiers = IF a.IncludeQualifiers = Some(TRUE) THEN @
                              ELSE {},
               !.properties =
                  [k \in {x \in DOMAIN cls.properties :
                             Listed(cls.properties[x])}
                     |-> ShapedProp(cls.properties[k])]]
    IN /\ last.status = "OK"
       /\ \A pair \in last.rtn :
             /\ pair[1].namespace = a.namespace
             /\ pair[1].host = Some(conn_host)
             /\ ClassExists(class_store[a.namespace], pair[1].classname)
             /\ pair[2] = Shaped(ClassGet(class_store[a.namespace],
                                          pair[1].classname))

-----------------------------------------------------------------------------
(* Requests that run concurrently.  The provider takes no lock, so the      *)
(* requests of two threads interleave between their accesses to the         *)
(* session table and to the stores.  threads.run[t] is the request of       *)
(* thread t: its parameters a, its position pc, its local value and, once   *)
(* pc is "done", its status and return value.  A context that is deleted    *)
(* from the session table lives on in threads.detached for the requests     *)
(* that hold a reference to it.  threads.start is the state the requests    *)
(* started in.                                                              *)

\* _pull_response in steps: look up the context and validate it ("start"),
\* compare the length of its data ("len"), then either delete the context
\* and return the data ("drain") or copy the head ("slice") and delete it
\* from the data ("del")
_pull_responseStep(t) ==
    LET th == threads.run[t]
        c == th.a.EnumerationContext
        max_obj_cnt == IF IsNone(th.a.MaxObjectCount)
                          \/ Val(th.a.MaxObjectCount) = 0
                       THEN _DEFAULT_MAX_OBJECT_COUNT
                       ELSE Val(th.a.MaxObjectCount)
        stored == c \in DOMAIN enumeration_contexts
        objs_list == IF stored THEN enumeration_contexts[c].data
                     ELSE threads.detached[c].data
        End(status, rtn) ==
            [th EXCEPT !.pc = "done", !.status = status, !.rtn = rtn]
    IN
    /\ th.op \in PullOps
    /\ CASE th.pc = "start" ->
              /\ threads' = [threads EXCEPT !.run[t] =
                    IF disable_pull_operations
                    THEN End("CIM_ERR_NOT_SUPPORTED", <<>>)
                    ELSE IF ~stored
                    THEN End("CIM_ERR_INVALID_ENUMERATION_CONTEXT", <<>>)
                    ELSE IF ~validate_namespace(Db,
                                enumeration_contexts[c].namespace)
                    THEN End("CIM_ERR_INVALID_NAMESPACE", <<>>)
                    ELSE IF ~PullTypeMatches(enumeration_contexts[c], th.op)
                    THEN End("CIM_ERR_INVALID_ENUMERATION_CONTEXT", <<>>)
                    ELSE [th EXCEPT !.pc = "len"]]
              /\ UNCHANGED enumeration_contexts
         [] th.pc = "len" ->
              /\ threads' = [threads EXCEPT !.run[t].pc =
                    IF Len(objs_list) <= max_obj_cnt THEN "drain"
                    ELSE "slice"]
              /\ UNCHANGED enumeration_contexts
         [] th.pc = "drain" ->
              IF stored
              THEN /\ enumeration_contexts' =
                        DictDel(enumeration_contexts, c)
                   /\ threads' = [threads EXCEPT
                        !.detached = DictSet(@, c, enumeration_contexts[c]),
                        !.run[t] = End("OK", objs_list)]
              ELSE /\ threads' = [threads EXCEPT
                        !.run[t] = End("KeyError", <<>>)]
                   /\ UNCHANGED enumeration_contexts
         [] th.pc = "slice" ->
              /\ threads' = [threads EXCEPT !.run[t] =
                    [th EXCEPT !.pc = "del",
                               !.local = SliceTo(objs_list, max_obj_cnt)]]
              /\ UNCHANGED enumeration_contexts
         [] th.pc = "del" ->
              IF stored
              THEN /\ enumeration_contexts' =
                        [enumeration_contexts EXCEPT ![c].data =
                            SliceFrom(objs_list, max_obj_cnt)]
                   /\ threads' = [threads EXCEPT
                        !.run[t] = End("UnboundLocalError", <<>>)]
              ELSE /\ threads' = [threads EXCEPT
                        !.detached[c].data = SliceFrom(objs_list, max_obj_cnt),
                        !.run[t] = End("UnboundLocalError", <<>>)]
                   /\ UNCHANGED enumeration_contexts
         [] th.pc = "done" -> FALSE
    /\ UNCHANGED <<repo_vars, uuid_count, disable_pull_operations, last,
                   sessions>>

\* CloseEnumeration in steps: test that the context is in the table
\* ("start"), then delete it ("del")
CloseEnumerationStep(t) ==
    LET th == threads.run[t]
        c == th.a.EnumerationContext
        stored == c \in DOMAIN enumeration_contexts
        End(status) == [th EXCEPT !.pc = "done", !.status = status]
    IN
    /\ th.op = "CloseEnumeration"
    /\ CASE th.pc = "start" ->
              /\ threads' = [threads EXCEPT !.run[t] =
                    IF disable_pull_operations
                    THEN End("CIM_ERR_NOT_SUPPORTED")
                    ELSE IF ~stored
                    THEN End("CIM_ERR_INVALID_ENUMERATION_CONTEXT")
                    ELSE [th EXCEPT !.pc = "del"]]
              /\ UNCHANGED enumeration_contexts
         [] th.pc = "del" ->
              IF stored
              THEN /\ enumeration_contexts' =
                        DictDel(enumeration_contexts, c)
                   /\ threads' = [threads EXCEPT
                        !.detached = DictSet(@, c, enumeration_contexts[c]),
                        !.run[t] = End("OK")]
              ELSE /\ threads' = [threads EXCEPT !.run[t] = End("KeyError")]
                   /\ UNCHANGED enumeration_contexts
         [] th.pc = "done" -> FALSE
    /\ UNCHANGED <<repo_vars, uuid_count, disable_pull_operations, last,
                   sessions>>

\* DeleteClass in steps: the checks and the list of class names ("start"),
\* then for each class name the deletion of the instances of ClassName and
\* its subclasses ("insts") and the deletion of the class ("class")
DeleteClassStep(t) ==
    LET th == threads.run[t]
        namespace == th.a.namespace
        ClassName == th.a.ClassName
        cs == class_store[namespace]
        End(status) == [th EXCEPT !.pc = "done", !.status = status]
    IN
    /\ th.op = "DeleteClass"
    /\ CASE th.pc = "start" ->
              /\ threads' = [threads EXCEPT !.run[t] =
                    IF ~validate_namespace(Db, namespace)
                    THEN End("CIM_ERR_INVALID_NAMESPACE")
                    ELSE IF ~ClassExists(cs, ClassName)
                    THEN End("CIM_ERR_NOT_FOUND")
                    ELSE [th EXCEPT
                            !.pc = "insts",
                            !.local = Append(_get_subclass_names(ClassName,
                                                 cs, TRUE), ClassName)]]
              /\ UNCHANGED <<class_store, instance_store>>
         [] th.pc = "insts" ->
              /\ instance_store' = [instance_store EXCEPT ![namespace] =
                    SelectSeq(@, LAMBDA x :
                        Lower(x.path.classname) \notin
                            _get_subclass_list_for_enums(ClassName, cs))]
              /\ threads' = [threads EXCEPT !.run[t].pc = "class"]
              /\ UNCHANGED class_store
         [] th.pc = "class" ->
              /\ class_store' = [class_store EXCEPT ![namespace] =
                    ClassDelete(@, Head(th.local))]
              /\ threads' = [threads EXCEPT !.run[t] =
                    IF Tail(th.local) = <<>> THEN End("OK")
                    ELSE [th EXCEPT !.pc = "insts",
                                    !.local = Tail(th.local)]]
              /\ UNCHANGED instance_store
         [] th.pc = "done" -> FALSE
    /\ UNCHANGED <<namespaces, qualifier_store, enumeration_contexts,
                   uuid_count, disable_pull_operations, last, sessions>>

\* CreateInstance in steps: the checks against the class and the new
\* instance built from it ("start"), then the duplicate check and the
\* creation in the instance store ("store")
CreateInstanceStep(t) ==
    LET th == threads.run[t]
        namespace == th.a.namespace
        NewInstance == th.a.NewInstance
        ns_classname == NsClassname(NewInstance.classname)
        Checked(r) ==
            IF r.status # "OK"
            THEN [th EXCEPT !.pc = "done", !.status = r.status]
            ELSE [th EXCEPT !.pc = "store",
                            !.local = InstGet(r.db.instance_store[namespace],
                                              Val(r.rtn))]
    IN
    /\ th.op = "CreateInstance"
    /\ CASE th.pc = "start" ->
              /\ threads' = [threads EXCEPT !.run[t] =
                    OneOf({Checked(r) :
                       r \in {CreateInstance(Db, namespace, NewInstance)}})]
              /\ UNCHANGED repo_vars
         [] th.pc = "store" ->
              \E r \in {StoreNewInstance(Db, namespace, th.local,
                            ns_classname,
                            IF IsNone(ns_classname) THEN ""
                            ELSE NewNamespaceName(NewInstance.properties))} :
                 /\ SetDb(r.db)
                 /\ threads' = [threads EXCEPT !.run[t] =
                       [th EXCEPT !.pc = "done", !.status = r.status,
                                  !.rtn = r.rtn]]
         [] th.pc = "done" -> FALSE
    /\ UNCHANGED <<enumeration_contexts, uuid_count, disable_pull_operations,
                   last, sessions>>

\* Two requests on two threads.  Either the repository holds two or three
\* instances of CIM_A with an enumeration context open on all but the first
\* of them, thread 1 pulls from the context and thread 2 pulls from it or
\* closes it; or the repository holds CIM_A, its subclass CIM_B, with or
\* without CIM_C below CIM_B, and one instance of CIM_A, thread 1 deletes
\* CIM_A and thread 2 creates an instance of CIM_A or of CIM_B.
SpecThreads ==
    /\ \E start \in
          {[db |-> db,
            ctxs |-> OpenRequest(db, << >>, 0, FALSE,
                         "OpenEnumerateInstancePaths",
                         OpenArgs("root", "CIM_A", Some(1), NoFilter)).ctxs,
            run |-> <<[op |-> "PullInstancePaths",
                       a |-> [EnumerationContext |-> UuidStrings[1],
                              MaxObjectCount |-> n1]],
                      second>>] :
             db \in Populated(2) \cup Populated(3),
             n1 \in {None, Some(1)},
             second \in
                {[op |-> "PullInstancePaths",
                  a |-> [EnumerationContext |-> UuidStrings[1],
                         MaxObjectCount |-> n2]] : n2 \in {None, Some(1)}}
                \cup {[op |-> "CloseEnumeration",
                       a |-> [EnumerationContext |-> UuidStrings[1]]]}}
          \cup
          {[db |-> db, ctxs |-> << >>,
            run |-> <<[op |-> "DeleteClass",
                       a |-> [namespace |-> "root", ClassName |-> "CIM_A"]],
                      [op |-> "CreateInstance",
                       a |-> [namespace |-> "root", NewInstance |-> i]]>>] :
             db \in UNION
                {{b, CreateClass(b, "root",
                        [classname |-> "CIM_C", superclass |-> Some("CIM_B"),
                         qualifiers |-> {}, properties |-> << >>]).db} :
                 b \in {CreateClass(d, "root",
                        [classname |-> "CIM_B", superclass |-> Some("CIM_A"),
                         qualifiers |-> {}, properties |-> << >>]).db :
                        d \in Populated(1)}},
             i \in {InstWith("CIM_A", "2", << >>),
                    InstWith("CIM_B", "2", << >>)}} :
          /\ namespaces = start.db.namespaces
          /\ class_store = start.db.class_store
          /\ instance_store = start.db.instance_store
          /\ qualifier_store = start.db.qualifier_store
          /\ enumeration_contexts = start.ctxs
          /\ uuid_count = Cardinality(DOMAIN start.ctxs)
          /\ threads =
                [run |-> [t \in 1..2 |->
                            [op |-> start.run[t].op, a |-> start.run[t].a,
                             pc |-> "start", local |-> <<>>, status |-> "",
                             rtn |-> <<>>]],
                 detached |-> << >>,
                 start |-> [db |-> start.db, ctxs |-> start.ctxs]]
    /\ disable_pull_operations = FALSE
    /\ last = NoCall
    /\ sessions = << >>
    /\ [][\E t \in 1..2 :
             \/ _pull_responseStep(t)
             \/ CloseEnumerationStep(t)
             \/ DeleteClassStep(t)
             \/ CreateInstanceStep(t)]_vars

-----------------------------------------------------------------------------
(* Properties of concurrent requests, checked under SpecThreads *)

\* C27: when two pulls of the matching type, or a pull and a
\* CloseEnumeration, have run concurrently on the same open context, the
\* two responses and the session table are those of one of the two serial
\* orders, the pages returned are disjoint, and neither request ended with
\* an error other than INVALID_ENUMERATION_CONTEXT.
C27_SessionTableSafe ==
    (/\ \A t \in 1..2 : threads.run[t].pc = "done"
     /\ threads.run[1].op \in PullOps)
    =>
    LET Run(th, ctxs) ==
            IF th.op = "CloseEnumeration"
            THEN CloseEnumeration(ctxs, FALSE, th.a.EnumerationContext)
            ELSE PullRequest(threads.start.db, ctxs, FALSE, th.op,
                             th.a.EnumerationContext, th.a.MaxObjectCount)
        Outcome(r1, r2) ==
            <<r1.status, r1.rtn, r2.status, r2.rtn, r2.ctxs>>
        Serial(x, y) ==
            OneOf({OneOf({Outcome(r1, r2) : r2 \in {Run(y, r1.ctxs)}}) :
                   r1 \in {Run(x, threads.start.ctxs)}})
        Observed(x, y) ==
            <<x.status, x.rtn, y.status, y.rtn, enumeration_contexts>>
    IN /\ \/ Observed(threads.run[1], threads.run[2])
                = Serial(threads.run[1], threads.run[2])
          \/ Observed(threads.run[2], threads.run[1])
                = Serial(threads.run[2], threads.run[1])
       /\ Range(threads.run[1].rtn) \cap Range(threads.run[2].rtn) = {}
       /\ \A t \in 1..2 :
             threads.run[t].status
                \in {"OK", "CIM_ERR_INVALID_ENUMERATION_CONTEXT"}

\* C28: when DeleteClass(ns, C) and CreateInstance(ns, I), I of the class C
\* or of a subclass of C, have run concurrently, the repository is the one
\* that one of the two serial orders leaves; no stored instance is of a
\* class that the class store does not hold.
C28_Serializable ==
    (/\ \A t \in 1..2 : threads.run[t].pc = "done"
     /\ threads.run[1].op = "DeleteClass")
    =>
    LET d == threads.run[1].a
        c == threads.run[2].a
        start == threads.start.db
    IN /\ Db \in
            {CreateInstance(r.db, c.namespace, c.NewInstance).db :
                r \in {DeleteClass(start, d.namespace, d.ClassName)}}
            \cup
            {DeleteClass(r.db, d.namespace, d.ClassName).db :
                r \in {CreateInstance(start, c.namespace, c.NewInstance)}}
       /\ \A ns \in namespaces :
             \A inst \in Range(instance_store[ns]) :
                ClassExists(class_store[ns], inst.classname)

\* C31: while DeleteClass(ns, C) runs on a hierarchy of depth two or more
\* below C, no class is deleted before all of its own subclasses are: at
\* every intermediate step each class in the class store still has its
\* superclass stored.
C31_DescendingDepth ==
    (/\ threads # << >>
     /\ threads.run[1].op = "DeleteClass"
     /\ \E c \in Range(threads.start.db.class_store["root"]) :
           Lower(c.classname) = "cim_c")
    =>
    \A ns \in namespaces :
       \A c \in Range(class_store[ns]) :
          IsNone(c.superclass) \/ ClassExists(class_store[ns], Val(c.superclass))

-----------------------------------------------------------------------------
(* Further properties of the class hierarchy, checked under SpecHier *)

\* the lower-cased names met on the superclass chain of the class named
\* classname, in at most n steps
RECURSIVE Above(_, _, _)
Above(cs, classname, n) ==
    IF n = 0 \/ ~ClassExists(cs, classname) THEN {}
    ELSE LET superclass == ClassGet(cs, classname).superclass
         IN IF IsNone(superclass) THEN {}
            ELSE {Lower(Val(superclass))}
                    \cup Above(cs, Val(superclass), n - 1)

\* C39: in every state that CreateClass and DeleteClass requests reach, the
\* superclass relation of each namespace is acyclic: no class is met on its
\* own superclass chain, so the walk up the chain and the deep subclass
\* enumeration end for every stored class.
C39_Acyclic ==
    \A ns \in namespaces :
       \A c \in Range(class_store[ns]) :
          Lower(c.classname)
             \notin Above(class_store[ns], c.classname,
                          Len(class_store[ns]))

\* CreateClass was refused for its superclass while CIM_A, CIM_B and CIM_C
\* are stored: the new class named itself as its superclass
C39_Witness ==
    /\ last.op = "CreateClass"
    /\ last.status = "CIM_ERR_INVALID_SUPERCLASS"
    /\ \A cln \in {"CIM_A", "CIM_B", "CIM_C"} :
          ClassExists(class_store["root"], cln)

-----------------------------------------------------------------------------
(* Further properties of ModifyInstance, checked under SpecInst *)

\* C32: ModifyInstance with an empty PropertyList that is not null, on an
\* existing namespace, returns successfully and leaves every store and the
\* session table unchanged, whatever ModifiedInstance is: of a class that is
\* absent, naming an instance that is not stored, or with a property the
\* class does not declare.
C32_EmptyPropertyListNoOp ==
    [][\A m \in InstInputs.ModifiedInstance \cup InstInputs.NewInstance :
          ModifyInstanceCall("root", m, Some({})) =>
             /\ last'.status = "OK"
             /\ UNCHANGED <<repo_vars, enumeration_contexts>>
       ]_vars

\* ModifyInstance returned successfully while no instance is stored: the
\* request had an empty PropertyList and named an instance that is absent
C32_Witness ==
    /\ last.op = "ModifyInstance"
    /\ last.status = "OK"
    /\ instance_store["root"] = << >>

\* C33: when ModifyInstance succeeds with a PropertyList that names
\* properties, a property of the class that is not a key, is named in
\* PropertyList and is not present in ModifiedInstance has in the stored
\* instance the value the class declares for it (its default); a property
\* that PropertyList does not name keeps its stored value.
C33_ListedAbsentGetsDefault ==
    [][\A m \in InstInputs.ModifiedInstance,
          pl \in InstInputs.PropertyList \ {None, Some({})} :
          (ModifyInstanceCall("root", m, pl) /\ last'.status = "OK") =>
             LET path == WithNamespace(m.path, "root")
                 cls == ClassGet(class_store["root"], m.classname)
                 old == InstGet(instance_store["root"], path)
                 new == InstGet(instance_store'["root"], path)
                 listed == {Lower(n) : n \in Val(pl)}
             IN \A k \in DOMAIN cls.properties \ KeyProps(cls) :
                   IF k \in listed
                   THEN k \notin DOMAIN m.properties =>
                           new.properties[k].value = cls.properties[k].value
                   ELSE new.properties[k].value = old.properties[k].value
       ]_vars

-----------------------------------------------------------------------------
(* Further properties of the reference and associator requests, checked    *)
(* under SpecAssoc                                                          *)

\* C34: AssociatorNames on a class name T returns the reference_class of a
\* reference property p of an association class A (A the AssocClass or a
\* subclass of it when AssocClass is given, with a reference property, named
\* Role when Role is given, to T or to a superclass of T) exactly when p
\* passes the ResultClass and ResultRole filters, except that p is skipped
\* when p.reference_class is T, in any casing, and exactly one reference
\* property of A targets T.
C34_AssociatedClassnames ==
    (/\ last.op = "AssociatorNames"
     /\ last.status = "OK"
     /\ "keybindings" \notin DOMAIN last.ctx.ObjectName)
    =>
    LET a == last.ctx
        cs == class_store[a.namespace]
        T == a.ObjectName.classname
        refs(cl) ==
            {cl.properties[k] :
               k \in {x \in DOMAIN cl.properties :
                         cl.properties[x].type = "reference"}}
        Within(v, cln) == IsNone(v) \/ IsOrExtends(cs, cln, Val(v))
        Named(v, p) == IsNone(v) \/ Lower(p.name) = Lower(Val(v))
        targets(cl) ==
            {q \in refs(cl) : Lower(q.reference_class) = Lower(T)}
        A == {cl \in Range(cs) :
                /\ "association" \in cl.qualifiers
                /\ Within(a.AssocClass, cl.classname)
                /\ \E q \in refs(cl) :
                      /\ IsOrExtends(cs, T, q.reference_class)
                      /\ Named(a.Role, q)}
        expected ==
            UNION {{p.reference_class :
                      p \in {q \in refs(cl) :
                         /\ Within(a.ResultClass, q.reference_class)
                         /\ Named(a.ResultRole, q)
                         /\ ~(/\ Lower(q.reference_class) = Lower(T)
                              /\ Cardinality(targets(cl)) = 1)}} :
                   cl \in A}
    IN {p.classname : p \in last.rtn} = expected

\* C37: in every reachable state, also after DeleteInstance of an instance
\* that an association instance still references, Associators on an
\* instance name succeeds whenever AssociatorNames with the same filters
\* succeeds and returns exactly one instance for each path AssociatorNames
\* returns; the same holds for References and ReferenceNames.  (Paths are
\* compared without their host.)
C37_ObjectsMatchNames ==
    (/\ last.op \in {"Associators", "References"}
     /\ "keybindings" \in DOMAIN last.ctx.ObjectName)
    =>
    LET a == last.ctx
        names == IF last.op = "Associators"
                 THEN AssociatorNames(Db, a.namespace, a.ObjectName,
                                      a.AssocClass, None, None, None)
                 ELSE ReferenceNames(Db, a.namespace, a.ObjectName,
                                     a.AssocClass, None)
    IN names.status = "OK" =>
          /\ last.status = "OK"
          /\ {[PathKey(i.path) EXCEPT !.host = None] : i \in last.rtn}
                = {[PathKey(n) EXCEPT !.host = None] : n \in names.rtn}
          /\ Cardinality(last.rtn) = Cardinality(names.rtn)

\* C38: each instance that References or Associators returns for an
\* instance name holds exactly the properties of the stored instance that
\* PropertyList names (all of them when PropertyList is null, none when it
\* is empty), with the stored values, and with the stored class origins
\* when IncludeClassOrigin is true and none otherwise.
C38_InstancesShaped ==
    (/\ last.op \in {"Associators", "References"}
     /\ last.status = "OK"
     /\ "keybindings" \in DOMAIN last.ctx.ObjectName)
    =>
    LET a == last.ctx
        Bare(p) == [p EXCEPT !.qualifiers = {}, !.class_origin = None]
        Listed(k) ==
            IsNone(a.PropertyList)
               \/ k \in {Lower(n) : n \in Val(a.PropertyList)}
    IN \A inst \in last.rtn :
          \E stored \in
                {InstGet(instance_store[a.namespace],
                         [inst.path EXCEPT !.host = None])} :
             /\ DOMAIN inst.properties
                   = {k \in DOMAIN stored.properties : Listed(k)}
             /\ \A k \in DOMAIN inst.properties :
                   /\ Bare(inst.properties[k]) = Bare(stored.properties[k])
                   /\ inst.properties[k].class_origin =
                         IF Truthy(a.IncludeClassOrigin)
                         THEN stored.properties[k].class_origin
                         ELSE None


\* the requests that read the repository
ReadRequests ==
    {"GetClass", "EnumerateClasses", "EnumerateClassNames", "GetInstance",
     "EnumerateInstances", "EnumerateInstanceNames", "GetQualifier",
     "EnumerateQualifiers", "ReferenceNames", "References",
     "AssociatorNames", "Associators"}

-----------------------------------------------------------------------------
(* Further properties of the enumeration sessions, checked under SpecPull *)

\* C35: after any sequence of Open, Pull and CloseEnumeration requests,
\* with any MaxObjectCount including 0 and absent, every context in the
\* session table holds at least one object that was not delivered: an empty
\* context is never left open.
C35_NoEmptyContext ==
    \A c \in DOMAIN enumeration_contexts :
       Len(enumeration_contexts[c].data) >= 1

\* a pull took objects from a context and left the last one in it
C35_Witness ==
    /\ last.op \in PullOps
    /\ last.status # "CIM_ERR_INVALID_ENUMERATION_CONTEXT"
    /\ \E c \in DOMAIN enumeration_contexts :
          /\ Len(enumeration_contexts[c].data) = 1
          /\ Len(sessions[c].all) = 3

\* C36 as stated: no entry of the session table has the pull type
\* PullInstances, and while pull operations are enabled every PullInstances
\* request fails INVALID_ENUMERATION_CONTEXT, whatever context id it is
\* given.
C36_PullInstancesFails ==
    [][/\ \A c \in DOMAIN enumeration_contexts' :
             enumeration_contexts'[c].pull_type # "PullInstances"
       /\ \A c \in ContextInputs, n \in PullCounts :
             (~disable_pull_operations /\ PullCall("PullInstances", c, n)) =>
                last'.status = "CIM_ERR_INVALID_ENUMERATION_CONTEXT"
       ]_vars

\* C36: no entry of the session table has the pull type PullInstances, and
\* while pull operations are enabled every PullInstances request fails and
\* leaves the table unchanged: with INVALID_NAMESPACE when it names a
\* context whose namespace no longer exists, with
\* INVALID_ENUMERATION_CONTEXT for every other context id.
C36_PullInstancesFailsValidation ==
    [][/\ \A c \in DOMAIN enumeration_contexts' :
             enumeration_contexts'[c].pull_type # "PullInstances"
       /\ \A c \in ContextInputs, n \in PullCounts :
             (~disable_pull_operations /\ PullCall("PullInstances", c, n)) =>
                /\ UNCHANGED enumeration_contexts
                /\ last'.status =
                      IF /\ c \in DOMAIN enumeration_contexts
                         /\ enumeration_contexts[c].namespace \notin namespaces
                      THEN "CIM_ERR_INVALID_NAMESPACE"
                      ELSE "CIM_ERR_INVALID_ENUMERATION_CONTEXT"
       ]_vars

\* PullInstances was refused on a context that is open, with another pull
\* type, in a namespace that exists
C36_Witness ==
    /\ last.op = "PullInstances"
    /\ last.status = "CIM_ERR_INVALID_ENUMERATION_CONTEXT"
    /\ last.ctx \in DOMAIN enumeration_contexts
    /\ enumeration_contexts[last.ctx].namespace \in namespaces

====
